---- MODULE Spec2Model ----
(***************************************************************************)
(* TemporaryStore of sui-adapter (temporary_store.rs): the per-transaction *)
(* staging store between the Move VM and the backing object store.         *)
(*                                                                         *)
(* Objects are records, maps (BTreeMap) are functions whose DOMAIN is the  *)
(* key set, HashSet / BTreeSet are sets, Vec is a sequence.                *)
(***************************************************************************)
EXTENDS Integers, Sequences, FiniteSets, TLC

VARIABLES
    store,                            \* backing store: the set of object versions it holds
    tx_digest,
    input_objects,                    \* ObjectID -> Object
    lamport_timestamp,
    mutable_input_refs,               \* ObjectID -> <<version, digest>>
    execution_results,                \* ExecutionResultsV2
    loaded_child_objects,             \* ObjectID -> LoadedChildObjectMetadata
    runtime_packages_loaded_from_db,  \* ObjectID -> Object
    debug_assertions,                 \* cfg(debug_assertions): the build the store runs in
    pc,                               \* "exec", "charged", "effects" (consumed) or "panicked"
    last_op,                          \* the operation that produced the current state
    built_by,                         \* the constructor that built the store
    gas_charger,                      \* the GasCharger collaborator's running totals
    check,                            \* check_ownership_invariants: its position, its arguments
                                      \* and how often it pushed each id onto the worklist
    objects_to_authenticate,          \* its worklist (Vec, popped from the end)
    authenticated_objects,            \* its authenticated set
    covered,                          \* its map from an id to the id that covers it
    returned,                         \* what the last call returned: <<value>>, or <<>> for ()
    fullnode,                         \* sui-rosetta: what the full node's get_stakes answers
    threads                           \* the write lock of runtime_packages_loaded_from_db and
                                      \* the get_package_object call of each thread

vars == <<store, tx_digest, input_objects, lamport_timestamp, mutable_input_refs,
          execution_results, loaded_child_objects, runtime_packages_loaded_from_db,
          debug_assertions, pc, last_op, built_by, gas_charger,
          check, objects_to_authenticate, authenticated_objects, covered,
          returned, fullnode, threads>>

check_vars == <<check, objects_to_authenticate, authenticated_objects, covered>>

store_vars == <<store, tx_digest, input_objects, lamport_timestamp, mutable_input_refs,
                debug_assertions, built_by>>

read_vars == <<returned, fullnode, threads>>

----------------------------------------------------------------------------
(* Bounds of the model *)

MaxVersion == 2     \* object versions handed to the store range over 0..MaxVersion
MaxRebate == 1      \* storage rebates of objects range over 0..MaxRebate
MaxBalance == 1     \* embedded SUI balances range over 0..MaxBalance
MaxEvents == 2      \* user events recorded by one transaction
MaxPrice == 1       \* storage price per size unit of the gas charger: 0 or MaxPrice
MaxStakes == 2      \* stakes one validator holds for the address: 0..MaxStakes
MaxPrincipal == 2   \* principal of a stake: 1 or MaxPrincipal
MaxGas == 3         \* fields of the gas cost summaries checked range over 0..MaxGas
MaxPushes == 3      \* pushes of one id onto the worklist are counted up to MaxPushes
MaxThreads == 2     \* threads that call get_package_object on one store: 1..MaxThreads

----------------------------------------------------------------------------
(* Base types *)

SequenceNumber_MIN == 0
\* SequenceNumber::MAX (0x7fff_ffff_ffff_ffff) scaled to the model: above every
\* version and every Lamport timestamp an input set can produce.
SequenceNumber_MAX == MaxVersion + 3

SENDER == "sender"
OTHER_ADDRESS == "other"
SUI_SYSTEM_STATE_OBJECT_ID == "0x5"
SYSTEM_PACKAGE_ID == "0x2"
ObjectIDs == {"0x2", "0x5", "0xA", "0xB", "0xC", "0xD", "0xE", "0xF"}

is_system_package(id) == id = SYSTEM_PACKAGE_ID

AddressOwner(a) == <<"AddressOwner", a>>
ObjectOwner(parent) == <<"ObjectOwner", parent>>
Shared == <<"Shared", "">>
Immutable == <<"Immutable", "">>

TX == "TX"              \* digest of the transaction under execution
PREV_TX == "PREV"       \* digest of some earlier transaction
TransactionDigest_default == "ZERO"

Object(id, version, owner, data, storage_rebate, balance, prev) ==
    [id |-> id, version |-> version, owner |-> owner, data |-> data,
     storage_rebate |-> storage_rebate, balance |-> balance,
     previous_transaction |-> prev]

is_immutable(obj) == obj.owner = Immutable
is_package(obj) == obj.data = "Package"

\* Object::digest: a hash of the whole object content, modelled injectively.
digest(obj) == <<"digest", obj.version, obj.owner, obj.data, obj.storage_rebate,
                 obj.balance, obj.previous_transaction>>

compute_object_reference(obj) == <<obj.id, obj.version, digest(obj)>>

\* Object::object_size_for_gas_metering: packages are the larger objects.
object_size_for_gas_metering(obj) == IF is_package(obj) THEN 2 ELSE 1

\* Object::get_total_sui: storage rebate plus the SUI embedded in the Move value.
get_total_sui(obj) == obj.storage_rebate + obj.balance

----------------------------------------------------------------------------
(* Maps *)

EmptyMap == [k \in {} |-> 0]

Insert(m, k, v) == [x \in (DOMAIN m) \cup {k} |-> IF x = k THEN v ELSE m[x]]

\* BTreeMap::extend: entries of m2 overwrite entries of m1.
Extend(m1, m2) ==
    [x \in (DOMAIN m1) \cup (DOMAIN m2) |-> IF x \in DOMAIN m2 THEN m2[x] ELSE m1[x]]

Max(S) == CHOOSE x \in S : \A y \in S : y <= x

RECURSIVE SumOver(_, _)
\* sum of f[k] over the keys k in S
SumOver(f, S) ==
    IF S = {} THEN 0
    ELSE LET k == CHOOSE x \in S : TRUE IN f[k] + SumOver(f, S \ {k})

----------------------------------------------------------------------------
(* Backing store (BackingStore trait, consumed interface) *)

\* ObjectStore::get_object: the latest version of id, or None.
store_get_object(id) ==
    LET vs == {o \in store : o.id = id} IN
    IF vs = {} THEN <<>>
    ELSE <<CHOOSE o \in vs : \A p \in vs : p.version <= o.version>>

\* ObjectStore::get_object_by_key: id at exactly this version, or None.
store_get_object_by_key(id, version) ==
    LET vs == {o \in store : o.id = id /\ o.version = version} IN
    IF vs = {} THEN <<>> ELSE <<CHOOSE o \in vs : TRUE>>

\* BackingPackageStore::get_package_object of the backing store.
store_get_package_object(id) ==
    LET r == store_get_object(id) IN
    IF r # <<>> /\ is_package(r[1]) THEN r ELSE <<>>

\* MovePackage::serialized_module_map: module name -> bytes; every package of
\* the model holds the one module "m"
serialized_module_map(obj) ==
    IF is_package(obj)
    THEN [name \in {"m"} |-> [bytes |-> name, package |-> obj.id, version |-> obj.version]]
    ELSE EmptyMap

\* MovePackage::deserialize_module: the CompiledModule of the named module, or
\* the error for a name the package does not hold
deserialize_module(obj, name) ==
    IF name \in DOMAIN serialized_module_map(obj)
    THEN <<"Ok", <<[module |-> name, package |-> obj.id, version |-> obj.version]>>>>
    ELSE <<"Err", "ModuleNotFound">>

\* GetModule::get_module_by_id of the backing store.
store_get_module_by_id(module_id) ==
    LET package == store_get_package_object(module_id[1]) IN
    IF package # <<>> /\ module_id[2] \in DOMAIN serialized_module_map(package[1])
    THEN deserialize_module(package[1], module_id[2])
    ELSE <<"Ok", <<>>>>

\* ChildObjectResolver::read_child_object of the backing store: the most recent
\* version of child, owned by parent, at or below the upper bound.
store_read_child_object(parent, child, upper_bound) ==
    LET vs == {o \in store : o.id = child /\ o.version <= upper_bound
                             /\ o.owner = ObjectOwner(parent)} IN
    IF vs = {} THEN <<>>
    ELSE <<CHOOSE o \in vs : \A p \in vs : p.version <= o.version>>

----------------------------------------------------------------------------
(* ExecutionResultsV2 (accumulator) *)

ExecutionResultsV2_default ==
    [written_objects |-> EmptyMap, created_object_ids |-> {},
     deleted_object_ids |-> {}, objects_modified_at |-> EmptyMap,
     user_events |-> <<>>]

\* ExecutionResultsV2::drop_writes
drop_writes_results(er) == ExecutionResultsV2_default

\* ExecutionResultsV2::merge_results: the incoming batch overwrites written
\* objects, the id sets union, the first recorded pre-image of an id is kept,
\* events are appended.
merge_results(er, new) ==
    [written_objects |-> Extend(er.written_objects, new.written_objects),
     created_object_ids |-> er.created_object_ids \cup new.created_object_ids,
     deleted_object_ids |-> er.deleted_object_ids \cup new.deleted_object_ids,
     objects_modified_at |-> Extend(new.objects_modified_at, er.objects_modified_at),
     user_events |-> er.user_events \o new.user_events]

\* ExecutionResultsV2::update_version_and_previous_tx: stamps every written
\* object with the Lamport version and the transaction digest.
update_version_and_previous_tx(er, lamport_version, prev_tx) ==
    [er EXCEPT !.written_objects =
        [id \in DOMAIN er.written_objects |->
            [er.written_objects[id] EXCEPT !.version = lamport_version,
                                           !.previous_transaction = prev_tx]]]

----------------------------------------------------------------------------
(* InputObjects *)

\* InputObjects::lamport_timestamp: 1 + the maximum version among the inputs.
lamport_timestamp_of(objects) ==
    1 + Max({objects[id].version : id \in DOMAIN objects} \cup {SequenceNumber_MIN})

\* InputObjects::mutable_inputs: the reference of every mutable input.
mutable_inputs(objects, mutable) ==
    [id \in mutable |-> <<objects[id].version, digest(objects[id])>>]

----------------------------------------------------------------------------
(* GasCharger (collaborator) *)

\* GasCharger::track_storage_mutation: the new rebate of an object is
\* proportional to its size; an unmetered charger has price 0.
track_storage_mutation(charger, new_size, old_rebate) == new_size * charger.storage_price

\* the charger after one track_storage_mutation call made for object id
Tracked(charger, id, new_size, old_rebate) ==
    [charger EXCEPT !.tracked = @ \cup
        {[id |-> id, new_size |-> new_size, old_rebate |-> old_rebate,
          new_rebate |-> track_storage_mutation(charger, new_size, old_rebate)]}]

NewGasCharger(price, coins) ==
    [storage_price |-> price, gas_coins |-> coins, tracked |-> {}]

\* GasCharger::gas_coin: the primary gas coin, None for a gas-less system transaction.
gas_coin(charger) ==
    IF charger.gas_coins = {} THEN <<>> ELSE <<CHOOSE c \in charger.gas_coins : TRUE>>

----------------------------------------------------------------------------
(* FullNodeApi (sui-rosetta, consumed interface) *)

\* get_stakes answers Err, or Ok with the address's delegations: a sequence of
\* DelegatedStake records [validator_address, stakes], stakes a sequence of
\* Stake records [staked_sui_id, status, principal, estimated_reward]
NoStakes == <<"Ok", <<>>>>

\* StakeStatus::Pending, Active { estimated_reward } and Unstaked; a stake that
\* is not Active carries no estimated_reward (0 here)
StakeStatuses == {"Pending", "Active", "Unstaked"}

Stake(staked_sui_id, status, principal, estimated_reward) ==
    [staked_sui_id |-> staked_sui_id, status |-> status, principal |-> principal,
     estimated_reward |-> IF status = "Active" THEN estimated_reward ELSE 0]

DelegatedStake(validator_address, stakes) ==
    [validator_address |-> validator_address, stakes |-> stakes]

\* Amount::new: a plain value without metadata
Amount_new(value) == [value |-> value, metadata |-> <<>>]

RECURSIVE SumValues(_)
SumValues(sub_balances) ==
    IF sub_balances = <<>> THEN 0
    ELSE Head(sub_balances).value + SumValues(Tail(sub_balances))

\* Amount::new_from_sub_balances: the sum of the sub-balances, which it keeps
\* as metadata
Amount_new_from_sub_balances(sub_balances) ==
    [value |-> SumValues(sub_balances), metadata |-> <<sub_balances>>]

SubBalance(stake_id, validator, value) ==
    [stake_id |-> stake_id, validator |-> validator, value |-> value]

SubAccountTypes == {"Stake", "PendingStake", "EstimatedReward"}

\* the if let of each match arm: the status the account type selects
selects_Active_for_PendingStake(account_type, stake) == stake.status = "Active"

selects(account_type, stake) ==
    IF account_type = "PendingStake" THEN stake.status = "Pending"
    ELSE stake.status = "Active"

\* the value each match arm pushes
sub_balance_value(account_type, stake) ==
    IF account_type = "EstimatedReward" THEN stake.estimated_reward ELSE stake.principal

\* the for loop over stakes.stakes of one DelegatedStake
RECURSIVE push_stakes(_, _, _, _)
push_stakes(account_type, amounts, validator_address, stakes) ==
    IF stakes = <<>> THEN amounts
    ELSE push_stakes(account_type,
                     IF selects(account_type, Head(stakes))
                     THEN Append(amounts,
                                 SubBalance(Head(stakes).staked_sui_id, validator_address,
                                            sub_balance_value(account_type, Head(stakes))))
                     ELSE amounts,
                     validator_address, Tail(stakes))

\* delegations.into_iter().fold(vec![], ..)
RECURSIVE fold_delegations(_, _, _)
fold_delegations(account_type, amounts, delegations) ==
    IF delegations = <<>> THEN amounts
    ELSE fold_delegations(account_type,
                          push_stakes(account_type, amounts,
                                      Head(delegations).validator_address,
                                      Head(delegations).stakes),
                          Tail(delegations))

\* get_sub_account_balances: the Result it returns for what get_stakes answered
get_sub_account_balances_result(account_type, stakes_result) ==
    IF stakes_result[1] = "Err" THEN <<"Err", "get_stakes">>
    ELSE LET amounts == fold_delegations(account_type, <<>>, stakes_result[2]) IN
         <<"Ok", IF amounts = <<>>
                 THEN <<Amount_new(0)>>
                 ELSE <<Amount_new_from_sub_balances(amounts)>>>>

----------------------------------------------------------------------------
(* TemporaryStore: construction *)

\* TemporaryStore::new and TemporaryStore::new_for_mock_transaction (mock = TRUE)
new(backing, objects, mutable, digest_, mock, debug, charger) ==
    /\ store = backing
    /\ tx_digest = digest_
    /\ input_objects = objects
    /\ lamport_timestamp =
          IF mock THEN SequenceNumber_MAX ELSE lamport_timestamp_of(objects)
    /\ mutable_input_refs = mutable_inputs(objects, mutable)
    /\ execution_results = ExecutionResultsV2_default
    /\ loaded_child_objects = EmptyMap
    /\ runtime_packages_loaded_from_db = EmptyMap
    /\ debug_assertions = debug
    /\ pc = "exec"
    /\ built_by = IF mock THEN "new_for_mock_transaction" ELSE "new"
    /\ last_op = built_by
    /\ gas_charger = charger
    /\ check = [pc |-> "idle", is_epoch_change |-> FALSE, pushes |-> EmptyMap]
    /\ objects_to_authenticate = <<>>
    /\ authenticated_objects = {}
    /\ covered = EmptyMap
    /\ returned = <<>>

----------------------------------------------------------------------------
(* TemporaryStore: operations *)

\* a panic (failed unwrap / expect / assert!, or a debug_assert! in a debug build)
\* unwinds out of the operation: the store is not used again
Panic(op) ==
    /\ pc' = "panicked"
    /\ last_op' = op
    /\ UNCHANGED <<store_vars, read_vars, check_vars, execution_results, loaded_child_objects,
                   runtime_packages_loaded_from_db, gas_charger>>

\* an operation that returns ()
Done(op) ==
    /\ last_op' = op
    /\ returned' = <<>>
    /\ UNCHANGED <<store_vars, fullnode, threads, check_vars, pc>>

\* a read-only call (&self) hands its value back to the caller
Return(op, value) ==
    /\ last_op' = op
    /\ returned' = <<value>>
    /\ UNCHANGED <<store_vars, fullnode, threads, check_vars, pc>>

\* Result: Ok(value) and Err(error)
Ok(value) == <<"Ok", value>>
Err(error) == <<"Err", error>>

\* mutate_input_object that writes the object without recording its pre-image
MutateInput_no_preimage(er, object) ==
    [er EXCEPT !.written_objects = Insert(@, object.id, object)]

\* mutate_input_object that records the reference of the object it is passed
MutateInput_passed_reference(er, object) ==
    [er EXCEPT !.objects_modified_at =
                   Insert(@, object.id, <<object.version, digest(object)>>),
               !.written_objects = Insert(@, object.id, object)]

\* body of TemporaryStore::mutate_input_object on the accumulator
MutateInput(er, object) ==
    [er EXCEPT !.objects_modified_at = Insert(@, object.id, mutable_input_refs[object.id]),
               !.written_objects = Insert(@, object.id, object)]

mutate_input_object(object) ==
    /\ pc = "exec"
    /\ IF object.id \notin DOMAIN mutable_input_refs
       THEN Panic("mutate_input_object")
       ELSE /\ execution_results' = MutateInput(execution_results, object)
            /\ Done("mutate_input_object")
            /\ UNCHANGED <<loaded_child_objects, runtime_packages_loaded_from_db, gas_charger>>

\* mutate_child_object that leaves loaded_child_objects alone
mutate_child_object_unrecorded(old_object, new_object) ==
    /\ pc = "exec"
    /\ IF debug_assertions /\ old_object.id # new_object.id
       THEN Panic("mutate_child_object")
       ELSE /\ execution_results' =
                  [execution_results EXCEPT
                      !.objects_modified_at =
                          Insert(@, new_object.id, <<old_object.version, digest(old_object)>>),
                      !.written_objects = Insert(@, new_object.id, new_object)]
            /\ Done("mutate_child_object")
            /\ UNCHANGED <<loaded_child_objects, runtime_packages_loaded_from_db, gas_charger>>

mutate_child_object(old_object, new_object) ==
    /\ pc = "exec"
    /\ IF debug_assertions /\ old_object.id # new_object.id
       THEN Panic("mutate_child_object")
       ELSE /\ loaded_child_objects' =
                  Insert(loaded_child_objects, new_object.id,
                         [version |-> old_object.version, digest |-> digest(old_object),
                          storage_rebate |-> old_object.storage_rebate])
            /\ execution_results' =
                  [execution_results EXCEPT
                      !.objects_modified_at =
                          Insert(@, new_object.id, <<old_object.version, digest(old_object)>>),
                      !.written_objects = Insert(@, new_object.id, new_object)]
            /\ Done("mutate_child_object")
            /\ UNCHANGED <<runtime_packages_loaded_from_db, gas_charger>>

upgrade_system_package(package) ==
    /\ pc = "exec"
    /\ IF \/ debug_assertions /\ ~is_package(package)
          \/ store_get_object(package.id) = <<>>
       THEN Panic("upgrade_system_package")
       ELSE LET old_obj == store_get_object(package.id)[1] IN
            /\ execution_results' =
                  [execution_results EXCEPT
                      !.objects_modified_at =
                          Insert(@, package.id, <<old_obj.version, digest(old_obj)>>),
                      !.written_objects = Insert(@, package.id, package)]
            /\ Done("upgrade_system_package")
            /\ UNCHANGED <<loaded_child_objects, runtime_packages_loaded_from_db, gas_charger>>

create_object(object) ==
    /\ pc = "exec"
    /\ IF debug_assertions
          /\ ~(is_immutable(object) \/ object.version = SequenceNumber_MIN)
       THEN Panic("create_object")
       ELSE /\ execution_results' =
                  [execution_results EXCEPT
                      !.created_object_ids = @ \cup {object.id},
                      !.written_objects = Insert(@, object.id, object)]
            /\ Done("create_object")
            /\ UNCHANGED <<loaded_child_objects, runtime_packages_loaded_from_db, gas_charger>>

delete_input_object(id) ==
    /\ pc = "exec"
    /\ IF \/ debug_assertions /\ id \in DOMAIN execution_results.written_objects
          \/ id \notin DOMAIN mutable_input_refs
       THEN Panic("delete_input_object")
       ELSE /\ execution_results' =
                  [execution_results EXCEPT
                      !.objects_modified_at = Insert(@, id, mutable_input_refs[id]),
                      !.deleted_object_ids = @ \cup {id}]
            /\ Done("delete_input_object")
            /\ UNCHANGED <<loaded_child_objects, runtime_packages_loaded_from_db, gas_charger>>

\* drop_writes that resets the loaded children along with the accumulator
drop_writes_and_children ==
    /\ pc = "exec"
    /\ execution_results' = drop_writes_results(execution_results)
    /\ loaded_child_objects' = EmptyMap
    /\ Done("drop_writes")
    /\ UNCHANGED <<runtime_packages_loaded_from_db, gas_charger>>

drop_writes ==
    /\ pc = "exec"
    /\ execution_results' = drop_writes_results(execution_results)
    /\ Done("drop_writes")
    /\ UNCHANGED <<loaded_child_objects, runtime_packages_loaded_from_db, gas_charger>>

\* read_object that lets the input pre-image shadow the written object
read_object_input_first(id) ==
    IF id \in DOMAIN input_objects
    THEN <<input_objects[id]>>
    ELSE IF id \in DOMAIN execution_results.written_objects
    THEN <<execution_results.written_objects[id]>> ELSE <<>>

\* TemporaryStore::read_object; None is <<>>, Some(obj) is <<obj>>
read_object(id) ==
    IF id \in DOMAIN execution_results.written_objects
    THEN <<execution_results.written_objects[id]>>
    ELSE IF id \in DOMAIN input_objects THEN <<input_objects[id]>> ELSE <<>>

\* the debug_assert! of read_object: no read after delete
read_object_panics(id) ==
    debug_assertions /\ id \in execution_results.deleted_object_ids

\* the assertions of save_loaded_child_objects that refuse any colliding key
colliding_keys_differ_or_exist(current, loaded) ==
    (DOMAIN loaded) \cap (DOMAIN current) # {}

\* the cfg(debug_assertions) block of save_loaded_child_objects: an assert_eq!
\* on a key of both maps fails
colliding_keys_differ(current, loaded) ==
    \/ \E id \in DOMAIN loaded : id \in DOMAIN current /\ loaded[id] # current[id]
    \/ \E id \in DOMAIN current : id \in DOMAIN loaded /\ current[id] # loaded[id]

save_loaded_child_objects(loaded) ==
    /\ pc = "exec"
    /\ IF debug_assertions /\ colliding_keys_differ(loaded_child_objects, loaded)
       THEN Panic("save_loaded_child_objects")
       ELSE /\ loaded_child_objects' = Extend(loaded_child_objects, loaded)
            /\ Done("save_loaded_child_objects")
            /\ UNCHANGED <<execution_results, runtime_packages_loaded_from_db, gas_charger>>

\* the inputs ensure_active_inputs_mutated pushes to to_be_updated
ToBeUpdated_unwritten(er) ==
    {id \in DOMAIN mutable_input_refs : id \notin DOMAIN er.written_objects}

ToBeUpdated(er) ==
    {id \in DOMAIN mutable_input_refs : id \notin DOMAIN er.objects_modified_at}

RECURSIVE MutateAll(_, _)
\* the second loop of ensure_active_inputs_mutated
MutateAll(er, ids) ==
    IF ids = {} THEN er
    ELSE LET id == CHOOSE x \in ids : TRUE IN
         MutateAll(MutateInput(er, input_objects[id]), ids \ {id})

ensure_active_inputs_mutated ==
    /\ pc = "exec"
    /\ execution_results' = MutateAll(execution_results, ToBeUpdated(execution_results))
    /\ Done("ensure_active_inputs_mutated")
    /\ UNCHANGED <<loaded_child_objects, runtime_packages_loaded_from_db, gas_charger>>

\* Storage::record_execution_results
\* record_execution_results that overrides the accumulator with the batch
RecordedResults_override(er, results) == results

\* Storage::record_execution_results: the accumulator after the V2 batch is merged
RecordedResults(er, results) == merge_results(er, results)

record_execution_results(results) ==
    /\ pc = "exec"
    /\ Len(execution_results.user_events) + Len(results.user_events) <= MaxEvents
    /\ execution_results' = RecordedResults(execution_results, results)
    /\ Done("record_execution_results")
    /\ UNCHANGED <<loaded_child_objects, runtime_packages_loaded_from_db, gas_charger>>

\* BackingPackageStore::get_package_object: the value returned
get_package_object_result(package_id) ==
    IF package_id \in DOMAIN execution_results.written_objects
    THEN <<execution_results.written_objects[package_id]>>
    ELSE store_get_package_object(package_id)

\* get_package_object that records every object it returns
get_package_object_records_writes(package_id) ==
    /\ pc = "exec"
    /\ runtime_packages_loaded_from_db' =
          IF get_package_object_result(package_id) # <<>>
          THEN Insert(runtime_packages_loaded_from_db, package_id,
                      get_package_object_result(package_id)[1])
          ELSE runtime_packages_loaded_from_db
    /\ Return("get_package_object", Ok(get_package_object_result(package_id)))
    /\ UNCHANGED <<execution_results, loaded_child_objects, gas_charger>>

get_package_object(package_id) ==
    /\ pc = "exec"
    /\ runtime_packages_loaded_from_db' =
          IF package_id \notin DOMAIN execution_results.written_objects
             /\ store_get_package_object(package_id) # <<>>
          THEN Insert(runtime_packages_loaded_from_db, package_id,
                      store_get_package_object(package_id)[1])
          ELSE runtime_packages_loaded_from_db
    /\ Return("get_package_object", Ok(get_package_object_result(package_id)))
    /\ UNCHANGED <<execution_results, loaded_child_objects, gas_charger>>

\* the threads that share the store by &self
Threads == 1..MaxThreads

\* a thread that has not called: no package id, no result
IdleCall == [pc |-> "idle", package_id |-> "", result |-> <<>>]

\* RwLock::new and no call in progress; lock is <<>> when free and <<t>> when
\* thread t holds the write guard
NoThreads == [lock |-> <<>>, calls |-> [t \in Threads |-> IdleCall]]

\* what a thread step leaves alone besides runtime_packages_loaded_from_db
thread_frame ==
    UNCHANGED <<store_vars, returned, fullnode, check_vars, pc, last_op,
                execution_results, loaded_child_objects, gas_charger>>

\* thread t calls get_package_object(package_id)
thread_call(t, package_id) ==
    /\ pc = "exec"
    /\ threads.calls[t].pc = "idle"
    /\ threads' = [threads EXCEPT !.calls[t] =
                      [pc |-> "called", package_id |-> package_id, result |-> <<>>]]
    /\ UNCHANGED runtime_packages_loaded_from_db
    /\ thread_frame

\* the if let on written_objects and, in its else branch, the backing store's
\* get_package_object: the call returns the written object or None, or goes
\* on to record the package it loaded
thread_lookup(t) ==
    /\ threads.calls[t].pc = "called"
    /\ LET package_id == threads.calls[t].package_id IN
       threads' =
          IF package_id \in DOMAIN execution_results.written_objects
          THEN [threads EXCEPT
                   !.calls[t].pc = "returned",
                   !.calls[t].result =
                       <<Ok(<<execution_results.written_objects[package_id]>>)>>]
          ELSE IF store_get_package_object(package_id) = <<>>
          THEN [threads EXCEPT !.calls[t].pc = "returned",
                               !.calls[t].result = <<Ok(<<>>)>>]
          ELSE [threads EXCEPT !.calls[t].pc = "write"]
    /\ UNCHANGED runtime_packages_loaded_from_db
    /\ thread_frame

\* the lock after its write guard is dropped without being released
Unlocked_never(lock) == lock

\* the lock after its write guard is dropped
Unlocked(lock) == <<>>

\* RwLock::write: blocks until no thread holds the lock, then takes it
thread_write(t) ==
    /\ threads.calls[t].pc = "write"
    /\ threads.lock = <<>>
    /\ threads' = [threads EXCEPT !.lock = <<t>>, !.calls[t].pc = "insert"]
    /\ UNCHANGED runtime_packages_loaded_from_db
    /\ thread_frame

\* BTreeMap::insert through the write guard
thread_insert(t) ==
    /\ threads.calls[t].pc = "insert"
    /\ runtime_packages_loaded_from_db' =
          Insert(runtime_packages_loaded_from_db, threads.calls[t].package_id,
                 store_get_package_object(threads.calls[t].package_id)[1])
    /\ threads' = [threads EXCEPT !.calls[t].pc = "drop"]
    /\ thread_frame

\* the guard is dropped at the end of the statement and the closure returns obj
thread_return(t) ==
    /\ threads.calls[t].pc = "drop"
    /\ threads' =
          [threads EXCEPT
              !.lock = Unlocked(@),
              !.calls[t].pc = "returned",
              !.calls[t].result =
                  <<Ok(store_get_package_object(threads.calls[t].package_id))>>]
    /\ UNCHANGED runtime_packages_loaded_from_db
    /\ thread_frame

\* one step of the get_package_object call of thread t
thread_step(t) ==
    \/ thread_lookup(t)
    \/ thread_write(t)
    \/ thread_insert(t)
    \/ thread_return(t)

\* Storage::read_object as the VM calls it: panics on the debug_assert!, or
\* returns the Option
Storage_read_object(id) ==
    /\ pc = "exec"
    /\ IF read_object_panics(id)
       THEN Panic("read_object")
       ELSE /\ Return("read_object", read_object(id))
            /\ UNCHANGED <<execution_results, loaded_child_objects,
                           runtime_packages_loaded_from_db, gas_charger>>

\* read_child_object that serves a written child only within the version bound
read_child_object_result_within_bound(parent, child, child_version_upper_bound) ==
    IF /\ child \in DOMAIN execution_results.written_objects
       /\ execution_results.written_objects[child].version <= child_version_upper_bound
    THEN <<execution_results.written_objects[child]>>
    ELSE store_read_child_object(parent, child, child_version_upper_bound)

\* ChildObjectResolver::read_child_object: the value returned
read_child_object_result(parent, child, child_version_upper_bound) ==
    IF child \in DOMAIN execution_results.written_objects
    THEN <<execution_results.written_objects[child]>>
    ELSE store_read_child_object(parent, child, child_version_upper_bound)

read_child_object(parent, child, child_version_upper_bound) ==
    /\ pc = "exec"
    /\ Return("read_child_object",
              Ok(read_child_object_result(parent, child, child_version_upper_bound)))
    /\ UNCHANGED <<execution_results, loaded_child_objects,
                   runtime_packages_loaded_from_db, gas_charger>>

\* get_module's lookup that asks the backing store before the store's own objects
get_module_package_backing_first(package_id) ==
    IF store_get_package_object(package_id) # <<>>
    THEN store_get_package_object(package_id)
    ELSE read_object(package_id)

\* the package a ModuleResolver::get_module call locates: read_object first
\* (written, then input), then the backing store directly
get_module_package(package_id) ==
    IF read_object(package_id) # <<>>
    THEN read_object(package_id)
    ELSE store_get_package_object(package_id)

\* ModuleResolver::get_module: the value returned; a ModuleId is
\* <<address, name>>
get_module_result(module_id) ==
    LET package == get_module_package(module_id[1]) IN
    IF package = <<>> THEN Ok(<<>>)
    ELSE IF is_package(package[1])
    THEN Ok(IF module_id[2] \in DOMAIN serialized_module_map(package[1])
            THEN <<serialized_module_map(package[1])[module_id[2]]>>
            ELSE <<>>)
    ELSE Err("BadObjectType")

get_module(module_id) ==
    /\ pc = "exec"
    /\ IF read_object_panics(module_id[1])
       THEN Panic("get_module")
       ELSE /\ Return("get_module", get_module_result(module_id))
            /\ UNCHANGED <<execution_results, loaded_child_objects,
                           runtime_packages_loaded_from_db, gas_charger>>

\* GetModule::get_module_by_id: the value returned, or "Panic" for the failed
\* expect on a written object that is not a package
get_module_by_id_result(module_id) ==
    IF module_id[1] \in DOMAIN execution_results.written_objects
    THEN LET obj == execution_results.written_objects[module_id[1]] IN
         IF ~is_package(obj) THEN "Panic"
         ELSE deserialize_module(obj, module_id[2])
    ELSE store_get_module_by_id(module_id)

get_module_by_id(module_id) ==
    /\ pc = "exec"
    /\ IF get_module_by_id_result(module_id) = "Panic"
       THEN Panic("get_module_by_id")
       ELSE /\ Return("get_module_by_id", get_module_by_id_result(module_id))
            /\ UNCHANGED <<execution_results, loaded_child_objects,
                           runtime_packages_loaded_from_db, gas_charger>>

\* TemporaryStore::into_inner: the InnerTemporaryStore a store decomposes into
into_inner(objects, mutable_refs, results, loaded, packages) ==
    [input_objects |-> objects,
     mutable_inputs |-> mutable_refs,
     written |-> results.written_objects,
     events |-> results.user_events,
     loaded_child_objects |-> [id \in DOMAIN loaded |-> loaded[id].version],
     runtime_packages_loaded_from_db |-> packages]

\* TemporaryStore::check_invariants (debug builds only): TRUE when no assertion fires
check_invariants(er) ==
    /\ \A id \in DOMAIN er.written_objects : id \notin er.deleted_object_ids
    /\ \A id \in DOMAIN mutable_input_refs : id \in DOMAIN er.objects_modified_at
    /\ \A id \in DOMAIN er.written_objects :
          er.written_objects[id].previous_transaction = tx_digest

\* update_object_version_and_prev_tx that stamps the default digest
update_object_version_and_prev_tx_default_digest(er) ==
    update_version_and_previous_tx(er, lamport_timestamp, TransactionDigest_default)

\* update_object_version_and_prev_tx that stamps the highest input version
update_object_version_and_prev_tx_input_version(er) ==
    update_version_and_previous_tx(er, lamport_timestamp - 1, tx_digest)

\* TemporaryStore::update_object_version_and_prev_tx on the accumulator
update_object_version_and_prev_tx(er) ==
    update_version_and_previous_tx(er, lamport_timestamp, tx_digest)

\* the reference into_effects reports for a gas-less transaction:
\* (ObjectID::ZERO, SequenceNumber::default(), ObjectDigest::MIN), owned by
\* SuiAddress::default()
ObjectID_ZERO == "0x0"
SequenceNumber_default == 0
ObjectDigest_MIN == <<"digest", "MIN">>
SuiAddress_default == "0x0"

\* updated_gas_object_info of into_effects, where the index of
\* written_objects by the gas coin does not panic
updated_gas_object_info(er, charger) ==
    IF gas_coin(charger) # <<>>
    THEN LET object == er.written_objects[gas_coin(charger)[1]] IN
         <<compute_object_reference(object), object.owner>>
    ELSE <<<<ObjectID_ZERO, SequenceNumber_default, ObjectDigest_MIN>>,
           AddressOwner(SuiAddress_default)>>

\* TemporaryStore::into_effects: stamps the written objects, snapshots the gas
\* coin and consumes the store; the state left is the InnerTemporaryStore.
into_effects ==
    /\ pc \in {"exec", "charged"}
    /\ execution_results' = update_object_version_and_prev_tx(execution_results)
    /\ pc' = IF \/ debug_assertions /\ ~check_invariants(execution_results')
                \/ /\ gas_coin(gas_charger) # <<>>
                   /\ gas_coin(gas_charger)[1] \notin DOMAIN execution_results.written_objects
             THEN "panicked" ELSE "effects"
    /\ last_op' = "into_effects"
    /\ UNCHANGED <<store_vars, read_vars, check_vars, loaded_child_objects, runtime_packages_loaded_from_db,
                   gas_charger>>

\* num_deletes that counts every modified id that is not written, the deleted
\* ones among them
num_deletes_counts_deleted_twice(er) ==
    Cardinality(er.deleted_object_ids)
    + Cardinality({id \in DOMAIN er.objects_modified_at :
                      id \notin DOMAIN er.written_objects})

\* num_deletes of estimate_effects_size_upperbound: the deleted ids plus the
\* wrapped ones
num_deletes(er) ==
    Cardinality(er.deleted_object_ids)
    + Cardinality({id \in DOMAIN er.objects_modified_at :
                      /\ id \notin DOMAIN er.written_objects
                      /\ id \notin er.deleted_object_ids})

\* the four arguments estimate_effects_size_upperbound hands to
\* TransactionEffects::estimate_effects_size_upperbound, in their order
estimate_effects_size_upperbound_args ==
    <<Cardinality(DOMAIN execution_results.written_objects),
      Cardinality(DOMAIN mutable_input_refs),
      num_deletes(execution_results),
      Cardinality(DOMAIN input_objects)>>

estimate_effects_size_upperbound ==
    /\ pc = "exec"
    /\ Return("estimate_effects_size_upperbound", estimate_effects_size_upperbound_args)
    /\ UNCHANGED <<execution_results, loaded_child_objects,
                   runtime_packages_loaded_from_db, gas_charger>>

\* conserve_unmetered_storage_rebate whose assert_eq! is a debug_assert_eq!
conserve_unmetered_storage_rebate_debug_assert ==
    \/ read_object_panics(SUI_SYSTEM_STATE_OBJECT_ID)
    \/ read_object(SUI_SYSTEM_STATE_OBJECT_ID) = <<>>
    \/ /\ debug_assertions
       /\ read_object(SUI_SYSTEM_STATE_OBJECT_ID)[1].storage_rebate # 0
    \/ SUI_SYSTEM_STATE_OBJECT_ID \notin DOMAIN mutable_input_refs

\* TemporaryStore::conserve_unmetered_storage_rebate: what makes a nonzero call
\* panic: the debug_assert! of read_object, the expect on its Option, the
\* assert_eq! on the rebate, the unwrap of mutate_input_object
conserve_unmetered_storage_rebate_panics ==
    \/ read_object_panics(SUI_SYSTEM_STATE_OBJECT_ID)
    \/ read_object(SUI_SYSTEM_STATE_OBJECT_ID) = <<>>
    \/ read_object(SUI_SYSTEM_STATE_OBJECT_ID)[1].storage_rebate # 0
    \/ SUI_SYSTEM_STATE_OBJECT_ID \notin DOMAIN mutable_input_refs

conserve_unmetered_storage_rebate(unmetered_storage_rebate) ==
    /\ pc = "exec"
    /\ IF unmetered_storage_rebate = 0
       THEN /\ Done("conserve_unmetered_storage_rebate")
            /\ UNCHANGED <<execution_results, loaded_child_objects,
                           runtime_packages_loaded_from_db, gas_charger>>
       ELSE IF conserve_unmetered_storage_rebate_panics
       THEN Panic("conserve_unmetered_storage_rebate")
       ELSE LET system_state_wrapper ==
                    [read_object(SUI_SYSTEM_STATE_OBJECT_ID)[1]
                        EXCEPT !.storage_rebate = unmetered_storage_rebate] IN
            /\ execution_results' = MutateInput(execution_results, system_state_wrapper)
            /\ Done("conserve_unmetered_storage_rebate")
            /\ UNCHANGED <<loaded_child_objects, runtime_packages_loaded_from_db,
                           gas_charger>>

----------------------------------------------------------------------------
(* Ownership authenticator *)

\* the order of ObjectIDs, which BTreeMap iteration follows
IdOrder == <<"0x2", "0x5", "0xA", "0xB", "0xC", "0xD", "0xE", "0xF">>
Rank(id) == CHOOSE i \in 1..Len(IdOrder) : IdOrder[i] = id

RECURSIVE InKeyOrder(_)
\* the ids of S as a Vec in ascending key order
InKeyOrder(S) ==
    IF S = {} THEN <<>>
    ELSE LET first == CHOOSE x \in S : \A y \in S : Rank(x) <= Rank(y) IN
         <<first>> \o InKeyOrder(S \ {first})

\* Vec::push of the ids of S, counted per id (the count stops at MaxPushes)
Pushed(pushes, S) ==
    [id \in (DOMAIN pushes) \cup S |->
        LET before == IF id \in DOMAIN pushes THEN pushes[id] ELSE 0 IN
        IF id \in S /\ before < MaxPushes THEN before + 1 ELSE before]

\* the first loop adds the Immutable inputs to the authenticated set as well
AuthenticatedInputs_with_immutable ==
    {id \in DOMAIN input_objects :
        /\ id \notin gas_charger.gas_coins
        /\ input_objects[id].owner[1] \in {"AddressOwner", "Shared", "Immutable"}}

\* the first loop authenticates the address-owned inputs only
AuthenticatedInputs_owned_only ==
    {id \in DOMAIN input_objects :
        /\ id \notin gas_charger.gas_coins
        /\ input_objects[id].owner[1] = "AddressOwner"}

\* first loop of get_objects_to_authenticate: the inputs that authenticate others
AuthenticatedInputs ==
    {id \in DOMAIN input_objects :
        /\ id \notin gas_charger.gas_coins
        /\ input_objects[id].owner[1] \in {"AddressOwner", "Shared"}}

\* the panics of the first loop: an input owned by another address or by an object
InputsPanic(sender) ==
    \E id \in DOMAIN input_objects :
        /\ id \notin gas_charger.gas_coins
        /\ \/ /\ input_objects[id].owner[1] = "AddressOwner"
              /\ input_objects[id].owner # AddressOwner(sender)
           \/ input_objects[id].owner[1] = "ObjectOwner"

\* second loop: the modified ids that are neither authenticated nor gas
ToClassify ==
    {id \in DOMAIN execution_results.objects_modified_at :
        id \notin AuthenticatedInputs /\ id \notin gas_charger.gas_coins}

\* the second loop lets every Immutable pre-image pass
ModifiedPanic_immutable_passes(is_epoch_change) ==
    \E id \in ToClassify :
        \/ store_get_object(id) = <<>>
        \/ store_get_object(id)[1].owner[1] \in {"AddressOwner", "Shared"}

\* the panics of the second loop
ModifiedPanic(is_epoch_change) ==
    \E id \in ToClassify :
        \/ store_get_object(id) = <<>>
        \/ store_get_object(id)[1].owner[1] \in {"AddressOwner", "Shared"}
        \/ /\ store_get_object(id)[1].owner = Immutable
           /\ ~(is_epoch_change /\ is_system_package(id))

\* the ids of S that the second loop pushes: those an object owns
ObjectOwned(S) == {id \in S : store_get_object(id)[1].owner[1] = "ObjectOwner"}

\* TemporaryStore::get_objects_to_authenticate, the first statement of
\* check_ownership_invariants
get_objects_to_authenticate(sender, is_epoch_change) ==
    /\ pc \in {"exec", "charged"}
    /\ check.pc = "idle"
    /\ IF InputsPanic(sender) \/ ModifiedPanic(is_epoch_change)
       THEN /\ check' = [pc |-> "Panic", is_epoch_change |-> is_epoch_change,
                         pushes |-> EmptyMap]
            /\ UNCHANGED <<objects_to_authenticate, authenticated_objects>>
       ELSE /\ check' = [pc |-> "walk", is_epoch_change |-> is_epoch_change,
                         pushes |-> Pushed(EmptyMap, ObjectOwned(ToClassify))]
            /\ objects_to_authenticate' = InKeyOrder(ObjectOwned(ToClassify))
            /\ authenticated_objects' = AuthenticatedInputs
    /\ covered' = EmptyMap
    /\ last_op' = "check_ownership_invariants"
    /\ UNCHANGED <<store_vars, read_vars, pc, execution_results, loaded_child_objects,
                   runtime_packages_loaded_from_db, gas_charger>>

\* an owner that never counts as an unauthenticated root
unauthenticated_root_ignored(old_obj) == FALSE

\* the match of the loop body panics on every owner but ObjectOwner
unauthenticated_root(old_obj) == old_obj.owner[1] # "ObjectOwner"

\* the loop body pushes the parent whatever covered holds
pushes_parent_again(parent) == parent \notin authenticated_objects

\* the loop body pushes the parent: it is not authenticated and not a key of covered
pushes_parent(parent) ==
    parent \notin authenticated_objects /\ parent \notin DOMAIN covered

\* one iteration of the while loop of check_ownership_invariants, or its return
authenticate_step ==
    /\ check.pc = "walk"
    /\ IF objects_to_authenticate = <<>>
       THEN /\ check' = [check EXCEPT !.pc = "Ok"]
            /\ UNCHANGED <<objects_to_authenticate, authenticated_objects, covered>>
       ELSE LET to_authenticate == objects_to_authenticate[Len(objects_to_authenticate)]
                popped == SubSeq(objects_to_authenticate, 1, Len(objects_to_authenticate) - 1)
            IN
            IF store_get_object(to_authenticate) = <<>>
            THEN /\ objects_to_authenticate' = popped
                 /\ UNCHANGED <<check, authenticated_objects, covered>>
            ELSE IF unauthenticated_root(store_get_object(to_authenticate)[1])
            THEN /\ check' = [check EXCEPT !.pc = "Panic"]
                 /\ objects_to_authenticate' = popped
                 /\ UNCHANGED <<authenticated_objects, covered>>
            ELSE LET parent == store_get_object(to_authenticate)[1].owner[2] IN
                 /\ authenticated_objects' =
                       IF parent \in authenticated_objects
                       THEN authenticated_objects \cup {to_authenticate}
                       ELSE authenticated_objects
                 /\ objects_to_authenticate' =
                       IF pushes_parent(parent) THEN Append(popped, parent) ELSE popped
                 /\ check' =
                       IF pushes_parent(parent)
                       THEN [check EXCEPT !.pushes = Pushed(check.pushes, {parent})]
                       ELSE check
                 /\ covered' = Insert(covered, to_authenticate, parent)
    /\ UNCHANGED <<store_vars, read_vars, pc, last_op, execution_results, loaded_child_objects,
                   runtime_packages_loaded_from_db, gas_charger>>

----------------------------------------------------------------------------
(* Storage gas and rebate *)

\* get_input_storage_rebate that takes the rebate as 0 where no source holds
\* the object
get_input_storage_rebate_or_zero(id, expected_version) ==
    IF id \in DOMAIN input_objects
    THEN <<input_objects[id].storage_rebate>>
    ELSE IF id \in DOMAIN loaded_child_objects
    THEN IF debug_assertions /\ loaded_child_objects[id].version # expected_version
         THEN <<>>
         ELSE <<loaded_child_objects[id].storage_rebate>>
    ELSE IF store_get_object_by_key(id, expected_version) # <<>>
    THEN IF debug_assertions /\ ~is_package(store_get_object_by_key(id, expected_version)[1])
         THEN <<>>
         ELSE <<store_get_object_by_key(id, expected_version)[1].storage_rebate>>
    ELSE <<0>>

\* TemporaryStore::get_input_storage_rebate: <<rebate>>, or <<>> when it panics
get_input_storage_rebate(id, expected_version) ==
    IF id \in DOMAIN input_objects
    THEN <<input_objects[id].storage_rebate>>
    ELSE IF id \in DOMAIN loaded_child_objects
    THEN IF debug_assertions /\ loaded_child_objects[id].version # expected_version
         THEN <<>>
         ELSE <<loaded_child_objects[id].storage_rebate>>
    ELSE IF store_get_object_by_key(id, expected_version) # <<>>
    THEN IF debug_assertions /\ ~is_package(store_get_object_by_key(id, expected_version)[1])
         THEN <<>>
         ELSE <<store_get_object_by_key(id, expected_version)[1].storage_rebate>>
    ELSE <<>>

\* old rebate staged for a written object that takes the written object's own field
OldStorageRebate_of_output(er, id) ==
    <<er.written_objects[id].storage_rebate>>

\* first loop of collect_storage_and_rebate: the old rebate staged for a written id
OldStorageRebate(er, id) ==
    IF id \in DOMAIN er.objects_modified_at
    THEN get_input_storage_rebate(id, er.objects_modified_at[id][1])
    ELSE <<0>>

\* collect_rebate charges every modified id, written or not
RebateOnly_all_modified(er) == DOMAIN er.objects_modified_at

\* the modified ids collect_rebate charges: deleted or wrapped
RebateOnly(er) == (DOMAIN er.objects_modified_at) \ (DOMAIN er.written_objects)

RECURSIVE TrackAll(_, _, _)
\* the charger after the calls of both loops, calls being records
\* [id, new_size, old_rebate]
TrackAll(charger, calls, ids) ==
    IF ids = {} THEN charger
    ELSE LET id == CHOOSE x \in ids : TRUE IN
         TrackAll(Tracked(charger, id, calls[id].new_size, calls[id].old_rebate),
                  calls, ids \ {id})

\* the calls of the second loop of collect_storage_and_rebate, one for each
\* written object; an old_rebate of <<>> is a panic of the first loop
written_calls(er) ==
    [id \in DOMAIN er.written_objects |->
        [new_size |-> object_size_for_gas_metering(er.written_objects[id]),
         old_rebate |-> OldStorageRebate(er, id)]]

\* the calls of collect_rebate, one for each modified id that is not written;
\* an old_rebate of <<>> is a panic
collect_rebate_calls(er) ==
    [id \in RebateOnly(er) |->
        [new_size |-> 0,
         old_rebate |-> get_input_storage_rebate(id, er.objects_modified_at[id][1])]]

\* the calls with the rebate taken out of its option
Staged(calls) ==
    [id \in DOMAIN calls |->
        [new_size |-> calls[id].new_size, old_rebate |-> calls[id].old_rebate[1]]]

collect_storage_and_rebate ==
    /\ pc = "exec"
    /\ LET er == execution_results
           written == DOMAIN er.written_objects
       IN
       IF \/ \E id \in written : written_calls(er)[id].old_rebate = <<>>
          \/ \E id \in DOMAIN collect_rebate_calls(er) :
                 collect_rebate_calls(er)[id].old_rebate = <<>>
       THEN Panic("collect_storage_and_rebate")
       ELSE LET staged == Staged(written_calls(er))
                rebates == Staged(collect_rebate_calls(er))
            IN
            /\ execution_results' =
                  [er EXCEPT !.written_objects =
                      [id \in written |->
                          [er.written_objects[id] EXCEPT !.storage_rebate =
                              track_storage_mutation(gas_charger, staged[id].new_size,
                                                     staged[id].old_rebate)]]]
            /\ gas_charger' =
                  TrackAll(TrackAll(gas_charger, staged, DOMAIN staged),
                           rebates, DOMAIN rebates)
            /\ pc' = "charged"
            /\ last_op' = "collect_storage_and_rebate"
            /\ UNCHANGED <<store_vars, read_vars, check_vars, loaded_child_objects, runtime_packages_loaded_from_db>>

----------------------------------------------------------------------------
(* Conservation checks *)

GasCostSummary(computation_cost, storage_cost, storage_rebate, non_refundable_storage_fee) ==
    [computation_cost |-> computation_cost, storage_cost |-> storage_cost,
     storage_rebate |-> storage_rebate,
     non_refundable_storage_fee |-> non_refundable_storage_fee]

\* TemporaryStore::get_modified_objects: the ModifiedObjectInfo of every modified
\* or written id; input is <<version, rebate option>>, None is <<>>
get_modified_objects ==
    LET er == execution_results IN
    {[id |-> id,
      input |-> <<er.objects_modified_at[id][1],
                  get_input_storage_rebate(id, er.objects_modified_at[id][1])>>,
      output |-> IF id \in DOMAIN er.written_objects
                 THEN <<er.written_objects[id]>> ELSE <<>>]
        : id \in DOMAIN er.objects_modified_at}
    \cup
    {[id |-> id, input |-> <<>>, output |-> <<er.written_objects[id]>>]
        : id \in (DOMAIN er.written_objects) \ (DOMAIN er.objects_modified_at)}

\* get_modified_objects panics when a pre-image rebate lookup panics
get_modified_objects_panics ==
    \E m \in get_modified_objects : m.input # <<>> /\ m.input[2] = <<>>

RECURSIVE total_input_rebate(_)
total_input_rebate(ms) ==
    IF ms = {} THEN 0
    ELSE LET m == CHOOSE x \in ms : TRUE IN
         (IF m.input # <<>> THEN m.input[2][1] ELSE 0) + total_input_rebate(ms \ {m})

RECURSIVE total_output_rebate(_)
total_output_rebate(ms) ==
    IF ms = {} THEN 0
    ELSE LET m == CHOOSE x \in ms : TRUE IN
         (IF m.output # <<>> THEN m.output[1].storage_rebate ELSE 0)
            + total_output_rebate(ms \ {m})

\* check_sui_conserved that demands storage_cost == output rebate in both branches
check_sui_conserved_one_branch(simple_conservation_checks, gas_summary) ==
    IF ~simple_conservation_checks THEN "Ok"
    ELSE LET modified == get_modified_objects IN
    IF \E m \in modified : m.input # <<>> /\ m.input[2] = <<>> THEN "Panic"
    ELSE IF total_input_rebate(modified)
               # gas_summary.storage_rebate + gas_summary.non_refundable_storage_fee
    THEN "Err: input rebate"
    ELSE IF gas_summary.storage_cost # total_output_rebate(modified)
    THEN "Err: storage cost"
    ELSE "Ok"

\* check_sui_conserved that never compares storage_cost with the output rebate
check_sui_conserved_cost_unchecked(simple_conservation_checks, gas_summary) ==
    IF ~simple_conservation_checks THEN "Ok"
    ELSE LET modified == get_modified_objects IN
    IF \E m \in modified : m.input # <<>> /\ m.input[2] = <<>> THEN "Panic"
    ELSE LET ir == total_input_rebate(modified)
             or == total_output_rebate(modified)
         IN
         IF gas_summary.storage_cost = 0
         THEN IF ir # or + gas_summary.storage_rebate + gas_summary.non_refundable_storage_fee
              THEN "Err: no storage charges"
              ELSE "Ok"
         ELSE IF ir # gas_summary.storage_rebate + gas_summary.non_refundable_storage_fee
              THEN "Err: input rebate"
              ELSE "Ok"

\* TemporaryStore::check_sui_conserved: "Ok", the error returned, or "Panic"
check_sui_conserved(simple_conservation_checks, gas_summary) ==
    IF ~simple_conservation_checks THEN "Ok"
    ELSE LET modified == get_modified_objects IN
    IF \E m \in modified : m.input # <<>> /\ m.input[2] = <<>> THEN "Panic"
    ELSE LET ir == total_input_rebate(modified)
             or == total_output_rebate(modified)
         IN
         IF gas_summary.storage_cost = 0
         THEN IF ir # or + gas_summary.storage_rebate + gas_summary.non_refundable_storage_fee
              THEN "Err: no storage charges"
              ELSE "Ok"
         ELSE IF ir # gas_summary.storage_rebate + gas_summary.non_refundable_storage_fee
              THEN "Err: input rebate"
              ELSE IF gas_summary.storage_cost # or
                   THEN "Err: storage cost"
                   ELSE "Ok"

\* TemporaryStore::get_input_sui: <<sui>>, or <<>> for the invariant violation
get_input_sui(id, expected_version) ==
    IF id \in DOMAIN input_objects
    THEN IF input_objects[id].version # expected_version
         THEN <<>>
         ELSE <<get_total_sui(input_objects[id])>>
    ELSE IF store_get_object_by_key(id, expected_version) = <<>>
         THEN <<>>
         ELSE <<get_total_sui(store_get_object_by_key(id, expected_version)[1])>>

RECURSIVE total_input_sui(_)
total_input_sui(ms) ==
    IF ms = {} THEN 0
    ELSE LET m == CHOOSE x \in ms : TRUE IN
         (IF m.input # <<>> THEN get_input_sui(m.id, m.input[1])[1] ELSE 0)
            + total_input_sui(ms \ {m})

RECURSIVE total_output_sui(_)
total_output_sui(ms) ==
    IF ms = {} THEN 0
    ELSE LET m == CHOOSE x \in ms : TRUE IN
         (IF m.output # <<>> THEN get_total_sui(m.output[1]) ELSE 0)
            + total_output_sui(ms \ {m})

\* check_sui_conserved_expensive that also counts storage_cost as output
check_sui_conserved_expensive_with_storage_cost(gas_summary, advance_epoch_gas_summary) ==
    LET modified == get_modified_objects IN
    IF \E m \in modified : m.input # <<>> /\ m.input[2] = <<>> THEN "Panic"
    ELSE IF \E m \in modified :
               m.input # <<>> /\ get_input_sui(m.id, m.input[1]) = <<>>
    THEN "Err: input lookup"
    ELSE IF total_input_sui(modified)
               # total_output_sui(modified) + gas_summary.computation_cost
                 + gas_summary.non_refundable_storage_fee + gas_summary.storage_cost
    THEN "Err: mints or burns" ELSE "Ok"

\* TemporaryStore::check_sui_conserved_expensive; advance_epoch_gas_summary is
\* <<>> for None and <<epoch_fees, epoch_rebates>> for Some
check_sui_conserved_expensive(gas_summary, advance_epoch_gas_summary) ==
    LET modified == get_modified_objects IN
    IF \E m \in modified : m.input # <<>> /\ m.input[2] = <<>> THEN "Panic"
    ELSE IF \E m \in modified :
               m.input # <<>> /\ get_input_sui(m.id, m.input[1]) = <<>>
    THEN "Err: input lookup"
    ELSE LET epoch_fees ==
                IF advance_epoch_gas_summary = <<>> THEN 0 ELSE advance_epoch_gas_summary[1]
             epoch_rebates ==
                IF advance_epoch_gas_summary = <<>> THEN 0 ELSE advance_epoch_gas_summary[2]
             input == total_input_sui(modified) + epoch_fees
             output == total_output_sui(modified)
                          + gas_summary.computation_cost
                          + gas_summary.non_refundable_storage_fee + epoch_rebates
         IN IF input # output THEN "Err: mints or burns" ELSE "Ok"

----------------------------------------------------------------------------
(* Specification Spec: the store under the engine's and the VM's operations *)

Owned(id, version, balance) ==
    Object(id, version, AddressOwner(SENDER), "Move", 0, balance, PREV_TX)
Child(id, parent, version, balance) ==
    Object(id, version, ObjectOwner(parent), "Move", 0, balance, PREV_TX)
Package(id, version) ==
    Object(id, version, Immutable, "Package", 0, 0, PREV_TX)

\* the backing store: a sender-owned object 0xA at version va, its dynamic-field
\* child 0xB and the system package 0x2
MainStore(va) == {Owned("0xA", va, 0), Child("0xB", "0xA", 1, 0), Package("0x2", 1)}

\* the input objects of the transaction: the latest versions of these ids
InputsOf(backing, ids) ==
    [id \in ids |-> CHOOSE o \in backing :
                       o.id = id /\ \A p \in backing : p.id = id => p.version <= o.version]

\* owned inputs are the mutable ones
MutableOf(objects) == {id \in DOMAIN objects : objects[id].owner[1] = "AddressOwner"}

MainInputSets == {{"0xA"}, {"0xA", "0x2"}}

Init ==
    /\ fullnode = NoStakes
    /\ threads = NoThreads
    /\ \E va \in 1..MaxVersion, ids \in MainInputSets, mock \in BOOLEAN, debug \in BOOLEAN :
           /\ mock => (va = 1 /\ ids = {"0xA", "0x2"} /\ ~debug)
           /\ LET objects == InputsOf(MainStore(va), ids) IN
              new(MainStore(va), objects, MutableOf(objects), TX, mock, debug,
                  NewGasCharger(1, {}))

\* objects the engine hands to create_object
CreateArgs ==
    {Object("0xF", v, o, "Move", 0, 0, PREV_TX) :
        v \in 0..MaxVersion, o \in {AddressOwner(SENDER), Immutable}}

\* objects the engine hands to mutate_input_object
MutateArgs ==
    {Owned("0xA", v, 0) : v \in 1..MaxVersion} \cup {Owned("0xF", 0, 0)}

\* (old, new) pairs handed to mutate_child_object
ChildArgs ==
    {<<old, Child("0xB", "0xA", old.version, 1)>> : old \in {o \in store : o.id = "0xB"}}

\* packages handed to upgrade_system_package
UpgradeArgs ==
    {Package("0x2", v) : v \in 2..MaxVersion} \cup {Owned("0x2", 2, 0), Package("0xF", 1)}

DeleteArgs == {"0xA", "0xF"}

\* the metadata the VM reports for a loaded child: that of a stored object
MetadataOf(obj) ==
    [version |-> obj.version, digest |-> digest(obj), storage_rebate |-> obj.storage_rebate]

LoadedArgs ==
    {[id \in {o.id} |-> MetadataOf(o)] : o \in {x \in store : x.id = "0xB"}}
    \cup {[id \in {"0xB"} |-> [version |-> 0, digest |-> digest(Child("0xB", "0xA", 0, 0)),
                               storage_rebate |-> 0]]}

\* one batch of results of a VM run: it mutates, deletes or wraps the stored
\* object id, or creates a fresh object, and may emit an event
Batch(written, created, deleted, modified, events) ==
    [written_objects |-> written, created_object_ids |-> created,
     deleted_object_ids |-> deleted, objects_modified_at |-> modified,
     user_events |-> events]

RefOf(obj) == <<obj.version, digest(obj)>>

\* the events of a batch: the first VM run that emits one emits "event"
EventArgs ==
    IF execution_results.user_events = <<>> THEN {<<>>, <<"event">>} ELSE {<<>>}

ResultArgs ==
    UNION {
        {Batch([i \in {o.id} |-> [o EXCEPT !.balance = 1]], {}, {},
               [i \in {o.id} |-> RefOf(o)], ev),
         Batch(EmptyMap, {}, {o.id}, [i \in {o.id} |-> RefOf(o)], ev),
         Batch(EmptyMap, {}, {}, [i \in {o.id} |-> RefOf(o)], ev)}
        : o \in {x \in store : x.id \in {"0xA", "0xB"}}, ev \in EventArgs}
    \cup {Batch([i \in {"0xF"} |-> Owned("0xF", 0, 0)], {"0xF"}, {}, EmptyMap, <<>>)}

Next ==
    \/ \E object \in CreateArgs : create_object(object)
    \/ \E object \in MutateArgs : mutate_input_object(object)
    \/ \E args \in ChildArgs : mutate_child_object(args[1], args[2])
    \/ \E package \in UpgradeArgs : upgrade_system_package(package)
    \/ \E id \in DeleteArgs : delete_input_object(id)
    \/ \E results \in ResultArgs : record_execution_results(results)
    \/ ensure_active_inputs_mutated
    \/ drop_writes
    \/ into_effects

Spec == Init /\ [][Next]_vars

----------------------------------------------------------------------------
(* Claims C1 - C5 *)

written_objects == execution_results.written_objects
created_object_ids == execution_results.created_object_ids
deleted_object_ids == execution_results.deleted_object_ids
objects_modified_at == execution_results.objects_modified_at

\* C1: in every reachable state no object id is both a key of written_objects
\* and a member of deleted_object_ids.
C1_written_and_deleted_disjoint ==
    \A id \in DOMAIN written_objects : id \notin deleted_object_ids

\* C2: immediately after ensure_active_inputs_mutated returns, every key of
\* mutable_input_refs is a key of objects_modified_at.
C2_mutable_inputs_modified ==
    last_op = "ensure_active_inputs_mutated" =>
        \A id \in DOMAIN mutable_input_refs : id \in DOMAIN objects_modified_at

\* ensure_active_inputs_mutated has pushed the unchanged image of a mutable input
C2_witness ==
    /\ last_op = "ensure_active_inputs_mutated"
    /\ \E id \in DOMAIN mutable_input_refs :
          /\ id \in DOMAIN written_objects
          /\ written_objects[id] = input_objects[id]
          /\ objects_modified_at[id] = mutable_input_refs[id]

\* C3: after finalization (update_object_version_and_prev_tx, run first by
\* into_effects) every written object has previous_transaction = tx_digest.
C3_previous_transaction_stamped ==
    last_op = "into_effects" =>
        \A id \in DOMAIN written_objects :
            written_objects[id].previous_transaction = tx_digest

\* into_effects has stamped two written objects
C3_witness ==
    /\ last_op = "into_effects"
    /\ pc = "effects"
    /\ Cardinality(DOMAIN written_objects) >= 2

\* C4 (as claimed): every created id's written object is immutable or at version
\* MIN before finalization, and at the Lamport timestamp after it.
C4_created_versions ==
    \A id \in created_object_ids \cap DOMAIN written_objects :
        IF last_op = "into_effects"
        THEN written_objects[id].version = lamport_timestamp
        ELSE \/ is_immutable(written_objects[id])
             \/ written_objects[id].version = SequenceNumber_MIN

\* C5: the written objects emitted by into_effects are at the Lamport timestamp;
\* for a store built by new it is 1 + the maximum input version, above every
\* input's version; for a store built by new_for_mock_transaction it is MAX.
C5_lamport_version ==
    /\ built_by = "new" =>
          /\ \A id \in DOMAIN input_objects : lamport_timestamp > input_objects[id].version
          /\ \E id \in DOMAIN input_objects : lamport_timestamp = input_objects[id].version + 1
    /\ built_by = "new_for_mock_transaction" => lamport_timestamp = SequenceNumber_MAX
    /\ last_op = "into_effects" =>
          \A id \in DOMAIN written_objects :
              /\ written_objects[id].version = lamport_timestamp
              /\ built_by = "new" =>
                    \A i \in DOMAIN input_objects :
                        written_objects[id].version > input_objects[i].version

\* a store built by new over inputs at different versions has emitted its writes
C5_witness ==
    /\ last_op = "into_effects"
    /\ pc = "effects"
    /\ built_by = "new"
    /\ written_objects # EmptyMap
    /\ \E i, j \in DOMAIN input_objects : input_objects[i].version < input_objects[j].version

----------------------------------------------------------------------------
(* Specification SpecGas: storage charging and the conservation checks *)

\* the backing store: the sender's coin 0xA with rebate ra, its child 0xB and
\* the system package 0x2, each holding storage rebate and SUI
GasStore(ra) ==
    {Object("0xA", 1, AddressOwner(SENDER), "Move", ra, 1, PREV_TX),
     Object("0xB", 1, ObjectOwner("0xA"), "Move", MaxRebate, 0, PREV_TX),
     Object("0x2", 1, Immutable, "Package", 1, 0, PREV_TX)}

InitGas ==
    /\ fullnode = NoStakes
    /\ threads = NoThreads
    /\ \E ra \in {0, MaxRebate}, price \in {0, MaxPrice}, debug \in BOOLEAN :
           LET objects == InputsOf(GasStore(ra), {"0xA"}) IN
           new(GasStore(ra), objects, MutableOf(objects), TX, FALSE, debug,
               NewGasCharger(price, {"0xA"}))

GasMutateArgs ==
    {Object("0xA", 1, AddressOwner(SENDER), "Move", r, b, PREV_TX) :
        r \in 0..MaxRebate, b \in 0..MaxBalance}

GasCreateArgs ==
    {Object("0xF", 0, AddressOwner(SENDER), "Move", 0, b, PREV_TX) : b \in 0..MaxBalance}
    \cup {Object("0xF", 1, Immutable, "Package", 0, 0, PREV_TX)}

GasChildArgs ==
    {<<old, [old EXCEPT !.balance = b]>> : old \in {o \in store : o.id = "0xB"},
                                           b \in 0..MaxBalance}

GasUpgradeArgs == {Object("0x2", 2, Immutable, "Package", 1, 0, PREV_TX)}

\* the VM wraps or deletes the child 0xB
GasResultArgs ==
    UNION {{Batch(EmptyMap, {}, {o.id}, [i \in {o.id} |-> RefOf(o)], <<>>),
            Batch(EmptyMap, {}, {}, [i \in {o.id} |-> RefOf(o)], <<>>)}
           : o \in {x \in store : x.id = "0xB"}}

GasLoadedArgs == {[id \in {o.id} |-> MetadataOf(o)] : o \in {x \in store : x.id = "0xB"}}

NextGas ==
    \/ \E object \in GasCreateArgs : create_object(object)
    \/ \E object \in GasMutateArgs : mutate_input_object(object)
    \/ \E args \in GasChildArgs : mutate_child_object(args[1], args[2])
    \/ \E package \in GasUpgradeArgs : upgrade_system_package(package)
    \/ delete_input_object("0xA")
    \/ \E results \in GasResultArgs : record_execution_results(results)
    \/ \E loaded \in GasLoadedArgs : save_loaded_child_objects(loaded)
    \/ ensure_active_inputs_mutated
    \/ collect_storage_and_rebate

SpecGas == InitGas /\ [][NextGas]_vars

----------------------------------------------------------------------------
(* Claims C7 - C9 *)

RECURSIVE SumNewRebate(_)
SumNewRebate(tracked) ==
    IF tracked = {} THEN 0
    ELSE LET t == CHOOSE x \in tracked : TRUE IN t.new_rebate + SumNewRebate(tracked \ {t})

RECURSIVE SumOldRebate(_)
SumOldRebate(tracked) ==
    IF tracked = {} THEN 0
    ELSE LET t == CHOOSE x \in tracked : TRUE IN t.old_rebate + SumOldRebate(tracked \ {t})

\* C7: after one collect_storage_and_rebate, check_sui_conserved(true, ..) returns
\* Ok for every gas summary whose storage_cost is the sum of the new rebates the
\* charger returned and whose storage_rebate + non_refundable_storage_fee is the
\* sum of the old rebates it was passed.
C7_charged_transaction_conserves ==
    pc = "charged" =>
        \A fee \in 0..SumOldRebate(gas_charger.tracked), cost \in 0..MaxGas :
            check_sui_conserved(TRUE,
                GasCostSummary(cost, SumNewRebate(gas_charger.tracked),
                               SumOldRebate(gas_charger.tracked) - fee, fee)) = "Ok"

\* a charged transaction that rewrote an object holding rebate, credited back a
\* deleted or wrapped one and was charged storage
C7_witness ==
    /\ pc = "charged"
    /\ SumNewRebate(gas_charger.tracked) > 0
    /\ \E t \in gas_charger.tracked : t.new_size = 0 /\ t.old_rebate > 0
    /\ \E t \in gas_charger.tracked : t.new_size > 0 /\ t.old_rebate > 0

GasSummaries ==
    {GasCostSummary(c, sc, sr, fee) :
        c \in {0}, sc \in 0..MaxGas, sr \in 0..MaxGas, fee \in 0..1}

\* IR: the pre-image storage rebates of the modified ids, summed
IR == SumOver([id \in DOMAIN objects_modified_at |->
                  get_input_storage_rebate(id, objects_modified_at[id][1])[1]],
              DOMAIN objects_modified_at)

\* OR: the storage rebates of the written objects, summed
OR == SumOver([id \in DOMAIN written_objects |-> written_objects[id].storage_rebate],
              DOMAIN written_objects)

\* C8: check_sui_conserved(true, g) is Ok exactly when storage_cost = 0 and
\* IR = OR + storage_rebate + non_refundable_storage_fee, or storage_cost # 0 and
\* IR = storage_rebate + non_refundable_storage_fee and storage_cost = OR, and an
\* error otherwise; check_sui_conserved(false, g) is always Ok.
C8_cheap_check_condition ==
    LET resolves == ~get_modified_objects_panics
        ir == IR
        or == OR
    IN
    \A g \in GasSummaries :
        /\ check_sui_conserved(FALSE, g) = "Ok"
        /\ resolves =>
              LET conserved ==
                     \/ /\ g.storage_cost = 0
                        /\ ir = or + g.storage_rebate + g.non_refundable_storage_fee
                     \/ /\ g.storage_cost # 0
                        /\ ir = g.storage_rebate + g.non_refundable_storage_fee
                        /\ g.storage_cost = or
              IN IF conserved
                 THEN check_sui_conserved(TRUE, g) = "Ok"
                 ELSE check_sui_conserved(TRUE, g) \in
                         {"Err: no storage charges", "Err: input rebate", "Err: storage cost"}

\* a state with rebate on both sides where the check accepts one summary through
\* each branch and rejects another
C8_witness ==
    /\ IR > 0
    /\ OR > 0
    /\ ~get_modified_objects_panics
    /\ \E g \in GasSummaries : g.storage_cost # 0 /\ check_sui_conserved(TRUE, g) = "Ok"
    /\ \E g \in GasSummaries : g.storage_cost = 0 /\ check_sui_conserved(TRUE, g) = "Ok"
    /\ \E g \in GasSummaries : check_sui_conserved(TRUE, g) = "Err: storage cost"

ExpensiveSummaries ==
    {GasCostSummary(c, sc, sr, fee) :
        c \in 0..1, sc \in 0..1, sr \in 0..1, fee \in 0..1}

AdvanceEpochSummaries == {<<>>, <<1, 0>>, <<0, 1>>}

\* the pre-image of a modified id: the input, or the stored object at the
\* version recorded in objects_modified_at
PreImage(id) ==
    IF id \in DOMAIN input_objects THEN input_objects[id]
    ELSE store_get_object_by_key(id, objects_modified_at[id][1])[1]

\* every modified id has a pre-image at the recorded version
PreImagesResolve ==
    /\ ~get_modified_objects_panics
    /\ \A id \in DOMAIN objects_modified_at :
          IF id \in DOMAIN input_objects
          THEN input_objects[id].version = objects_modified_at[id][1]
          ELSE store_get_object_by_key(id, objects_modified_at[id][1]) # <<>>

\* C9: check_sui_conserved_expensive is Ok exactly when the total SUI of the
\* pre-images + epoch_fees equals the total SUI of the written objects +
\* computation_cost + non_refundable_storage_fee + epoch_rebates (fees and
\* rebates 0 when advance_epoch_gas_summary is None); storage_cost and
\* storage_rebate do not enter.
C9_expensive_check_condition ==
    PreImagesResolve =>
        LET input == SumOver([id \in DOMAIN objects_modified_at |->
                                 get_total_sui(PreImage(id))],
                             DOMAIN objects_modified_at)
            output == SumOver([id \in DOMAIN written_objects |->
                                  get_total_sui(written_objects[id])],
                              DOMAIN written_objects)
        IN
        \A g \in ExpensiveSummaries, adv \in AdvanceEpochSummaries :
            LET fees == IF adv = <<>> THEN 0 ELSE adv[1]
                rebates == IF adv = <<>> THEN 0 ELSE adv[2]
            IN (check_sui_conserved_expensive(g, adv) = "Ok")
                  <=> (input + fees
                          = output + g.computation_cost + g.non_refundable_storage_fee
                               + rebates)

\* the expensive check accepts an epoch-change summary and a plain one over
\* modified objects that hold SUI, and rejects a third
C9_witness ==
    /\ PreImagesResolve
    /\ Cardinality(DOMAIN objects_modified_at) >= 2
    /\ written_objects # EmptyMap
    /\ \E g \in ExpensiveSummaries :
          /\ g.storage_cost # 0
          /\ check_sui_conserved_expensive(g, <<1, 0>>) = "Ok"
    /\ \E g \in ExpensiveSummaries : check_sui_conserved_expensive(g, <<>>) = "Ok"
    /\ \E g \in ExpensiveSummaries : check_sui_conserved_expensive(g, <<>>) = "Err: mints or burns"

----------------------------------------------------------------------------
(* Specification SpecOwn: the ownership check after the VM's modifications *)

\* the backing store: the sender's object 0xA, the gas coin 0xC, the frozen
\* object 0xE, the system package 0x2, the user package 0x5 and two objects
\* 0xB and 0xD with the owners ob and od; 0xF is in no store
OwnStore(ob, od) ==
    {Owned("0xA", 1, 0), Owned("0xC", 1, 0),
     Object("0xE", 1, Immutable, "Move", 0, 0, PREV_TX), Package("0x2", 1),
     Package("0x5", 1),
     Object("0xB", 1, ob, "Move", 0, 0, PREV_TX),
     Object("0xD", 1, od, "Move", 0, 0, PREV_TX)}

OwnersOfB == {ObjectOwner(p) : p \in {"0xA", "0xD", "0xF", "0xC"}}
OwnersOfD == {ObjectOwner(p) : p \in {"0xA", "0xB", "0xD", "0xE"}} \cup {AddressOwner(OTHER_ADDRESS)}

InitOwn ==
    /\ fullnode = NoStakes
    /\ threads = NoThreads
    /\ \E ob \in OwnersOfB, od \in OwnersOfD :
           LET objects == InputsOf(OwnStore(ob, od), {"0xA", "0xC", "0xE"}) IN
           new(OwnStore(ob, od), objects, MutableOf(objects), TX, FALSE, FALSE,
               NewGasCharger(1, {"0xC"}))

\* the VM mutates or wraps one of the stored objects 0xB and 0xD, or wraps the
\* frozen object 0xE
OwnResultArgs ==
    UNION {{Batch([i \in {o.id} |-> o], {}, {}, [i \in {o.id} |-> RefOf(o)], <<>>),
            Batch(EmptyMap, {}, {}, [i \in {o.id} |-> RefOf(o)], <<>>)}
           : o \in {x \in store : x.id \in {"0xB", "0xD"}}}
      \cup {Batch(EmptyMap, {}, {}, [i \in {o.id} |-> RefOf(o)], <<>>)
              : o \in {x \in store : x.id = "0xE"}}

\* the packages upgrade_system_package is called with: the system package and
\* the user package
OwnUpgradeArgs == {Package("0x2", 2), Package("0x5", 2)}

NextOwn ==
    \/ /\ check.pc = "idle"
       /\ \E results \in OwnResultArgs : record_execution_results(results)
    \/ /\ check.pc = "idle"
       /\ \E package \in OwnUpgradeArgs : upgrade_system_package(package)
    \/ /\ check.pc = "idle"
       /\ ensure_active_inputs_mutated
    \/ \E is_epoch_change \in BOOLEAN : get_objects_to_authenticate(SENDER, is_epoch_change)
    \/ authenticate_step

SpecOwn == InitOwn /\ [][NextOwn]_vars

----------------------------------------------------------------------------
(* Claim C6 *)

\* an authenticated root: a sender-owned or shared input, or a gas coin
IsRoot(id) ==
    \/ id \in gas_charger.gas_coins
    \/ /\ id \in DOMAIN input_objects
       /\ input_objects[id].owner \in {AddressOwner(SENDER), Shared}

RECURSIVE TransitivelyOwned(_, _)
\* following the ObjectOwner links of the backing store from id reaches a root
\* within n steps
TransitivelyOwned(id, n) ==
    \/ IsRoot(id)
    \/ /\ n > 0
       /\ store_get_object(id) # <<>>
       /\ store_get_object(id)[1].owner[1] = "ObjectOwner"
       /\ TransitivelyOwned(store_get_object(id)[1].owner[2], n - 1)

\* C6 (as claimed): whenever check_ownership_invariants returns Ok, every modified
\* id is transitively owned by a sender-owned input, a gas coin or a shared
\* input, or is a system package under is_epoch_change; never Ok for a chain
\* that ends at an id absent from the backing store or loops.
C6_ok_means_transitively_owned ==
    check.pc = "Ok" =>
        \A id \in DOMAIN objects_modified_at :
            \/ TransitivelyOwned(id, Cardinality(ObjectIDs))
            \/ check.is_epoch_change /\ is_system_package(id)

RECURSIVE ChainUnrefuted(_, _)
\* the chain from id runs through object-owned objects only, until it reaches
\* an authenticated input, an id absent from the backing store, or (n = 0: more
\* steps than there are ids) an id it has already visited
ChainUnrefuted(id, n) ==
    /\ store_get_object(id) # <<>>
    /\ store_get_object(id)[1].owner[1] = "ObjectOwner"
    /\ LET parent == store_get_object(id)[1].owner[2] IN
       \/ parent \in AuthenticatedInputs
       \/ store_get_object(parent) = <<>>
       \/ n = 0
       \/ ChainUnrefuted(parent, n - 1)

\* C6 (amended): whenever check_ownership_invariants returns Ok, every modified
\* id is a sender-owned or shared input, a gas coin, a system package under
\* is_epoch_change, or the start of a chain of object-owned objects that
\* reaches a sender-owned or shared input, an id absent from the backing store,
\* or a cycle.
C6_ok_means_chain_unrefuted ==
    check.pc = "Ok" =>
        \A id \in DOMAIN objects_modified_at :
            \/ IsRoot(id)
            \/ check.is_epoch_change /\ is_system_package(id)
            \/ ChainUnrefuted(id, Cardinality(ObjectIDs))

\* Ok was returned for a modified child two links below the sender's input
C6_witness ==
    /\ check.pc = "Ok"
    /\ \E id \in DOMAIN objects_modified_at :
          /\ ~IsRoot(id)
          /\ store_get_object(id)[1].owner[1] = "ObjectOwner"
          /\ store_get_object(id)[1].owner[2] \notin DOMAIN input_objects
          /\ TransitivelyOwned(id, Cardinality(ObjectIDs))
          /\ id \in authenticated_objects

----------------------------------------------------------------------------
(* Specification SpecReset: aborted executions, with the resolver's loads *)

InitReset ==
    /\ fullnode = NoStakes
    /\ threads = NoThreads
    /\ \E debug \in BOOLEAN, ids \in MainInputSets :
           LET objects == InputsOf(MainStore(1), ids) IN
           new(MainStore(1), objects, MutableOf(objects), TX, FALSE, debug,
               NewGasCharger(1, {}))

\* (old, new) pairs handed to mutate_child_object, old also of another id
ResetChildArgs ==
    {<<old, Child("0xB", "0xA", old.version, 1)>> : old \in {o \in store : o.id \in {"0xA", "0xB"}}}

NextReset ==
    \/ \E object \in {o \in CreateArgs : o.version = SequenceNumber_MIN} : create_object(object)
    \/ \E object \in MutateArgs : mutate_input_object(object)
    \/ \E args \in ResetChildArgs : mutate_child_object(args[1], args[2])
    \/ \E id \in DeleteArgs : delete_input_object(id)
    \/ \E results \in ResultArgs : record_execution_results(results)
    \/ \E loaded \in LoadedArgs : save_loaded_child_objects(loaded)
    \/ \E id \in {"0x2", "0xA"} : get_package_object(id)
    \/ drop_writes

SpecReset == InitReset /\ [][NextReset]_vars

----------------------------------------------------------------------------
(* Claim C10 *)

\* what read_object returns on a freshly constructed store with the same inputs
FreshRead(id) == IF id \in DOMAIN input_objects THEN <<input_objects[id]>> ELSE <<>>

\* what into_inner emits for a freshly constructed store with the same inputs
FreshInner ==
    into_inner(input_objects, mutable_input_refs, ExecutionResultsV2_default,
               EmptyMap, EmptyMap)

\* C10 (as claimed): after drop_writes the observable state (read_object
\* results, accumulator, loaded_child_objects and runtime_packages_loaded_from_db
\* as emitted by into_inner) equals that of a freshly constructed store.
C10_drop_writes_restores_fresh_store ==
    last_op = "drop_writes" =>
        /\ \A id \in ObjectIDs : ~read_object_panics(id) /\ read_object(id) = FreshRead(id)
        /\ execution_results = ExecutionResultsV2_default
        /\ into_inner(input_objects, mutable_input_refs, execution_results,
                      loaded_child_objects, runtime_packages_loaded_from_db) = FreshInner

\* C10 (amended): drop_writes empties the accumulator, so that read_object
\* answers as on a freshly constructed store, and leaves loaded_child_objects
\* and runtime_packages_loaded_from_db as they were.
C10_drop_writes_resets_accumulator_only ==
    [][last_op' = "drop_writes" =>
          /\ execution_results' = ExecutionResultsV2_default
          /\ \A id \in ObjectIDs :
                /\ ~read_object_panics(id)'
                /\ read_object(id)' = FreshRead(id)
          /\ loaded_child_objects' = loaded_child_objects
          /\ runtime_packages_loaded_from_db' = runtime_packages_loaded_from_db
          /\ into_inner(input_objects, mutable_input_refs, execution_results,
                        loaded_child_objects, runtime_packages_loaded_from_db)'
             = [FreshInner EXCEPT
                   !.loaded_child_objects =
                       [id \in DOMAIN loaded_child_objects |->
                           loaded_child_objects[id].version],
                   !.runtime_packages_loaded_from_db = runtime_packages_loaded_from_db]
      ]_vars

\* drop_writes has emptied the accumulator of a store that keeps a loaded child
\* and a package loaded from the backing store
C10_witness ==
    /\ last_op = "drop_writes"
    /\ execution_results = ExecutionResultsV2_default
    /\ loaded_child_objects # EmptyMap
    /\ runtime_packages_loaded_from_db # EmptyMap

----------------------------------------------------------------------------
(* Specification SpecResolve: the VM reads through the resolver adapters *)

\* the backing store: the sender's object 0xA, two versions of its child 0xB,
\* the system package 0x2 and a package 0xD that is never an input
ResolveStore == MainStore(1) \cup {Child("0xB", "0xA", 2, 1), Package("0xD", 1)}

InitResolve ==
    /\ fullnode = NoStakes
    /\ threads = NoThreads
    /\ \E debug \in BOOLEAN, ids \in MainInputSets :
           LET objects == InputsOf(ResolveStore, ids) IN
           new(ResolveStore, objects, MutableOf(objects), TX, FALSE, debug,
               NewGasCharger(1, {}))

\* ids the VM asks the resolvers for; 0xF is nowhere
ResolveIds == {"0x2", "0xD", "0xA", "0xB", "0xF"}

\* ModuleIds the VM asks for: every package holds "m" and none holds "n"
ModuleIds == {<<id, name>> : id \in ResolveIds, name \in {"m", "n"}}

\* (parent, child, child_version_upper_bound) the VM reads dynamic fields with
ChildReadArgs ==
    {<<parent, child, bound>> :
        parent \in {"0xA", "0xF"}, child \in {"0xA", "0xB"}, bound \in 0..MaxVersion}

\* a system package upgrade, and a Move object written over the package id
ResolveUpgradeArgs == {Package("0x2", 2), Owned("0x2", 2, 0)}

NextResolve ==
    \/ mutate_input_object(Owned("0xA", 1, 1))
    \/ delete_input_object("0xA")
    \/ \E args \in ChildArgs : mutate_child_object(args[1], args[2])
    \/ \E package \in ResolveUpgradeArgs : upgrade_system_package(package)
    \/ \E id \in ResolveIds : Storage_read_object(id)
    \/ \E args \in ChildReadArgs : read_child_object(args[1], args[2], args[3])
    \/ \E id \in ResolveIds : get_package_object(id)
    \/ \E module_id \in ModuleIds : get_module(module_id)
    \/ \E module_id \in ModuleIds : get_module_by_id(module_id)
    \/ into_effects

SpecResolve == InitResolve /\ [][NextResolve]_vars

----------------------------------------------------------------------------
(* Specification SpecMerge: the VM runs more than once and records each run *)

InitMerge ==
    /\ fullnode = NoStakes
    /\ threads = NoThreads
    /\ LET objects == InputsOf(MainStore(1), {"0xA"}) IN
       new(MainStore(1), objects, MutableOf(objects), TX, FALSE, FALSE,
           NewGasCharger(1, {}))

\* the batches a VM run may record over the accumulator er: it mutates or
\* deletes a stored object or an object an earlier run wrote (its pre-image is
\* then the earlier post-image), or creates 0xF; it may emit one event
MergeArgs(er) ==
    LET seen == {o \in store : o.id \in {"0xA", "0xB"}}
                   \cup {er.written_objects[id] : id \in DOMAIN er.written_objects}
    IN UNION {
          {Batch([i \in {o.id} |-> [o EXCEPT !.balance = 1 - @]], {}, {},
                 [i \in {o.id} |-> RefOf(o)], ev),
           Batch(EmptyMap, {}, {o.id}, [i \in {o.id} |-> RefOf(o)], ev)}
          : o \in seen, ev \in {<<>>, <<"e1">>, <<"e2">>}}
       \cup {Batch([i \in {"0xF"} |-> Owned("0xF", 0, 0)], {"0xF"}, {}, EmptyMap, <<>>)}

NextMerge ==
    \/ \E results \in MergeArgs(execution_results) : record_execution_results(results)
    \/ drop_writes

SpecMerge == InitMerge /\ [][NextMerge]_vars

----------------------------------------------------------------------------
(* Claim C13 *)

\* C13: after record_execution_results(r1) and then record_execution_results(r2)
\* over an accumulator, written_objects holds r2's object for every id r2 wrote
\* and r1's for ids only r1 wrote, created and deleted ids are the unions,
\* objects_modified_at keeps the first pre-image observed for an id both
\* batches carry, and user_events is the earlier events, r1's, then r2's.
C13_merge_policy ==
    LET e == execution_results IN
    \A r1 \in MergeArgs(e) :
        \A r2 \in MergeArgs(RecordedResults(e, r1)) :
            LET b == RecordedResults(RecordedResults(e, r1), r2) IN
            /\ DOMAIN b.written_objects =
                  DOMAIN e.written_objects \cup DOMAIN r1.written_objects
                     \cup DOMAIN r2.written_objects
            /\ \A id \in DOMAIN b.written_objects :
                  b.written_objects[id] =
                     IF id \in DOMAIN r2.written_objects THEN r2.written_objects[id]
                     ELSE IF id \in DOMAIN r1.written_objects THEN r1.written_objects[id]
                     ELSE e.written_objects[id]
            /\ b.created_object_ids =
                  e.created_object_ids \cup r1.created_object_ids \cup r2.created_object_ids
            /\ b.deleted_object_ids =
                  e.deleted_object_ids \cup r1.deleted_object_ids \cup r2.deleted_object_ids
            /\ DOMAIN b.objects_modified_at =
                  DOMAIN e.objects_modified_at \cup DOMAIN r1.objects_modified_at
                     \cup DOMAIN r2.objects_modified_at
            /\ \A id \in DOMAIN b.objects_modified_at :
                  b.objects_modified_at[id] =
                     IF id \in DOMAIN e.objects_modified_at THEN e.objects_modified_at[id]
                     ELSE IF id \in DOMAIN r1.objects_modified_at
                     THEN r1.objects_modified_at[id]
                     ELSE r2.objects_modified_at[id]
            /\ b.user_events = e.user_events \o r1.user_events \o r2.user_events

\* two runs have been recorded: the second rewrote 0xA, which the first had
\* written, so 0xA carries the second post-image and the first pre-image, and
\* the events of the two runs follow one another
C13_witness ==
    /\ last_op = "record_execution_results"
    /\ "0xA" \in DOMAIN written_objects
    /\ written_objects["0xA"].balance = input_objects["0xA"].balance
    /\ objects_modified_at["0xA"] = RefOf(input_objects["0xA"])
    /\ execution_results.user_events = <<"e1", "e2">>

----------------------------------------------------------------------------
(* Claim C11 *)

\* C11: save_loaded_child_objects is idempotent: after a call with m has
\* returned, a second call with the same m does not trip the colliding-key
\* assertion and leaves loaded_child_objects and the rest of the store as the
\* first call left them.
C11_save_loaded_child_objects_idempotent ==
    [][\A m \in LoadedArgs :
          (save_loaded_child_objects(m) /\ pc' = "exec")
             => (ENABLED (save_loaded_child_objects(m) /\ UNCHANGED vars))'
      ]_vars

\* a debug build, where the assertions are compiled in, has returned from a call
\* that recorded a loaded child
C11_witness ==
    /\ last_op = "save_loaded_child_objects"
    /\ pc = "exec"
    /\ debug_assertions
    /\ loaded_child_objects # EmptyMap

----------------------------------------------------------------------------
(* Claim C12 *)

\* the fields of the store a read-only call must leave alone
StoreUntouched ==
    UNCHANGED <<store_vars, execution_results, loaded_child_objects,
                runtime_packages_loaded_from_db, gas_charger>>

\* written post-image, else input pre-image, else None
WrittenElseInput(id) ==
    IF id \in DOMAIN written_objects THEN <<written_objects[id]>>
    ELSE IF id \in DOMAIN input_objects THEN <<input_objects[id]>>
    ELSE <<>>

\* C12 (as claimed): every read_object(id) call returns the written post-image
\* if there is one, else the input pre-image, else None, and changes nothing.
C12_read_object_returns ==
    [][\A id \in ResolveIds :
          Storage_read_object(id) =>
             /\ pc' = "exec"
             /\ returned' = <<WrittenElseInput(id)>>
             /\ StoreUntouched
      ]_vars

\* C12 (amended): read_object(id) returns the written post-image if there is
\* one, else the input pre-image, else None, and changes nothing; but in a
\* debug build a call for an id in deleted_object_ids panics instead.
C12_read_object_returns_unless_deleted ==
    [][\A id \in ResolveIds :
          Storage_read_object(id) =>
             /\ StoreUntouched
             /\ IF debug_assertions /\ id \in deleted_object_ids
                THEN pc' = "panicked"
                ELSE /\ pc' = "exec"
                     /\ returned' = <<WrittenElseInput(id)>>
      ]_vars

\* read_object has returned the written post-image of an input object, which
\* differs from the input pre-image
C12_witness ==
    /\ last_op = "read_object"
    /\ pc = "exec"
    /\ "0xA" \in DOMAIN written_objects
    /\ "0xA" \in DOMAIN input_objects
    /\ written_objects["0xA"] # input_objects["0xA"]
    /\ returned = <<<<written_objects["0xA"]>>>>

----------------------------------------------------------------------------
(* Claim C14 *)

\* C14: read_child_object(parent, child, upper_bound) returns the written
\* post-image of child whenever child is a key of written_objects, whatever the
\* parent and the bound, and otherwise exactly what the backing store's
\* read_child_object(parent, child, upper_bound) returns.
C14_read_child_object_serves_writes_first ==
    [][\A args \in ChildReadArgs :
          read_child_object(args[1], args[2], args[3]) =>
             /\ pc' = "exec"
             /\ StoreUntouched
             /\ returned' =
                   <<Ok(IF args[2] \in DOMAIN written_objects
                        THEN <<written_objects[args[2]]>>
                        ELSE store_read_child_object(args[1], args[2], args[3]))>>
      ]_vars

\* the resolver has served an in-flight write of the child 0xB that the backing
\* store does not hold
C14_witness ==
    /\ last_op = "read_child_object"
    /\ "0xB" \in DOMAIN written_objects
    /\ written_objects["0xB"] \notin store
    /\ returned = <<Ok(<<written_objects["0xB"]>>)>>

----------------------------------------------------------------------------
(* Claim C15 *)

\* C15: get_package_object(id) returns the written object and leaves
\* runtime_packages_loaded_from_db alone when id is in written_objects;
\* otherwise it returns the backing store's result and inserts (id, package)
\* exactly when the backing store returned a package. So every entry of
\* runtime_packages_loaded_from_db is what the backing store returned for its id.
C15_get_package_object_records_backing_loads ==
    [][\A id \in ResolveIds :
          get_package_object(id) =>
             /\ pc' = "exec"
             /\ UNCHANGED <<store_vars, execution_results, loaded_child_objects, gas_charger>>
             /\ IF id \in DOMAIN written_objects
                THEN /\ returned' = <<Ok(<<written_objects[id]>>)>>
                     /\ UNCHANGED runtime_packages_loaded_from_db
                ELSE /\ returned' = <<Ok(store_get_package_object(id))>>
                     /\ runtime_packages_loaded_from_db' =
                           IF store_get_package_object(id) = <<>>
                           THEN runtime_packages_loaded_from_db
                           ELSE Insert(runtime_packages_loaded_from_db, id,
                                       store_get_package_object(id)[1])
             /\ \A k \in DOMAIN runtime_packages_loaded_from_db' :
                   store_get_package_object(k) = <<runtime_packages_loaded_from_db'[k]>>
      ]_vars

\* the resolver has served the upgraded system package from written_objects
\* without recording it, after recording the package 0xD it loaded from the
\* backing store
C15_witness ==
    /\ last_op = "get_package_object"
    /\ "0xD" \in DOMAIN runtime_packages_loaded_from_db
    /\ "0x2" \in DOMAIN written_objects
    /\ "0x2" \notin DOMAIN runtime_packages_loaded_from_db
    /\ returned = <<Ok(<<written_objects["0x2"]>>)>>

----------------------------------------------------------------------------
(* Claim C16 *)

\* the package of id is recorded and so emitted by into_inner
RecordedAsLoaded(id) ==
    /\ id \in DOMAIN runtime_packages_loaded_from_db
    /\ <<runtime_packages_loaded_from_db[id]>> = store_get_package_object(id)
    /\ id \in DOMAIN into_inner(input_objects, mutable_input_refs, execution_results,
                                loaded_child_objects, runtime_packages_loaded_from_db)
                         .runtime_packages_loaded_from_db

\* C16: whenever get_package_object, get_module or get_module_by_id falls
\* through to the backing store and loads a package, the package is recorded in
\* runtime_packages_loaded_from_db and so is part of the InnerTemporaryStore.
C16_resolver_loads_are_recorded ==
    [][/\ \A id \in ResolveIds :
             (/\ get_package_object(id)
              /\ id \notin DOMAIN written_objects
              /\ store_get_package_object(id) # <<>>) => RecordedAsLoaded(id)'
       /\ \A module_id \in ModuleIds :
             (/\ get_module(module_id)
              /\ pc' = "exec"
              /\ read_object(module_id[1]) = <<>>
              /\ store_get_package_object(module_id[1]) # <<>>)
                => RecordedAsLoaded(module_id[1])'
       /\ \A module_id \in ModuleIds :
             (/\ get_module_by_id(module_id)
              /\ pc' = "exec"
              /\ module_id[1] \notin DOMAIN written_objects
              /\ store_get_module_by_id(module_id) # Ok(<<>>))
                => RecordedAsLoaded(module_id[1])'
      ]_vars

----------------------------------------------------------------------------
(* Claim C17 *)

\* the object get_module is claimed to locate: written, then input, then the
\* backing store
Located(package_id) ==
    IF package_id \in DOMAIN written_objects THEN <<written_objects[package_id]>>
    ELSE IF package_id \in DOMAIN input_objects THEN <<input_objects[package_id]>>
    ELSE store_get_package_object(package_id)

\* Ok(None) for no package, the module map's answer for a package, and
\* BadObjectType for any other object
ModuleOf(module_id) ==
    IF Located(module_id[1]) = <<>> THEN Ok(<<>>)
    ELSE IF ~is_package(Located(module_id[1])[1]) THEN Err("BadObjectType")
    ELSE IF module_id[2] \in DOMAIN serialized_module_map(Located(module_id[1])[1])
    THEN Ok(<<serialized_module_map(Located(module_id[1])[1])[module_id[2]]>>)
    ELSE Ok(<<>>)

\* C17 (as claimed): every get_module(module_id) call returns Ok(None) when the
\* package is found in none of written_objects, the inputs and the backing
\* store, the module map's bytes-or-None when the object located in that order
\* is a package, and BadObjectType when it is not a package.
C17_get_module_lookup_order ==
    [][\A module_id \in ModuleIds :
          get_module(module_id) =>
             /\ pc' = "exec"
             /\ returned' = <<ModuleOf(module_id)>>
      ]_vars

\* C17 (amended): get_module(module_id) returns as claimed, except that in a
\* debug build a call for a package id in deleted_object_ids panics on
\* read_object's assertion.
C17_get_module_lookup_order_unless_deleted ==
    [][\A module_id \in ModuleIds :
          get_module(module_id) =>
             /\ StoreUntouched
             /\ IF debug_assertions /\ module_id[1] \in deleted_object_ids
                THEN pc' = "panicked"
                ELSE /\ pc' = "exec"
                     /\ returned' = <<ModuleOf(module_id)>>
      ]_vars

\* get_module has returned the module of the upgraded system package from
\* written_objects, while the inputs and the backing store hold the old version
C17_witness ==
    /\ last_op = "get_module"
    /\ pc = "exec"
    /\ "0x2" \in DOMAIN written_objects
    /\ "0x2" \in DOMAIN input_objects
    /\ store_get_package_object("0x2") # <<written_objects["0x2"]>>
    /\ is_package(written_objects["0x2"])
    /\ returned = <<Ok(<<serialized_module_map(written_objects["0x2"])["m"]>>)>>

----------------------------------------------------------------------------
(* sui-rosetta account API: get_sub_account_balances *)

get_sub_account_balances(account_type) ==
    /\ last_op' = "get_sub_account_balances"
    /\ returned' = <<get_sub_account_balances_result(account_type, fullnode)>>
    /\ UNCHANGED <<store_vars, fullnode, threads, check_vars, pc, execution_results,
                   loaded_child_objects, runtime_packages_loaded_from_db, gas_charger>>

\* the stakes one validator may hold for the address: up to n stakes; an
\* Active stake's estimated reward is above every principal
StakeSeqs(n) ==
    UNION {[1..k -> {Stake(0, st, p, MaxPrincipal + p) :
                        st \in StakeStatuses, p \in {1, MaxPrincipal}}]
           : k \in 0..n}

WithIds(first_id, stakes) ==
    [i \in 1..Len(stakes) |-> [stakes[i] EXCEPT !.staked_sui_id = first_id + i]]

\* what get_stakes may answer: an error, no delegation, or the delegations to
\* one or two validators
StakesResults ==
    {<<"Err">>, NoStakes}
    \cup {<<"Ok", <<DelegatedStake("validator1", WithIds(0, s1))>>>> :
             s1 \in StakeSeqs(MaxStakes)}
    \cup {<<"Ok", <<DelegatedStake("validator1", WithIds(0, s1)),
                    DelegatedStake("validator2", WithIds(MaxStakes, s2))>>>> :
             s1 \in StakeSeqs(MaxStakes), s2 \in StakeSeqs(1)}

InitRosetta ==
    /\ fullnode \in StakesResults
    /\ threads = NoThreads
    /\ new({}, EmptyMap, {}, TX, FALSE, FALSE, NewGasCharger(0, {}))

NextRosetta ==
    \E account_type \in SubAccountTypes : get_sub_account_balances(account_type)

SpecRosetta == InitRosetta /\ [][NextRosetta]_vars

----------------------------------------------------------------------------
(* Claim C18 *)

\* every stake of the address with its validator, in the order get_stakes lists them
RECURSIVE AllStakes(_)
AllStakes(delegations) ==
    IF delegations = <<>> THEN <<>>
    ELSE [i \in 1..Len(Head(delegations).stakes) |->
             <<Head(delegations).validator_address, Head(delegations).stakes[i]>>]
         \o AllStakes(Tail(delegations))

\* the status a kind filters by and the field it values a stake at
KindStatus(kind) == IF kind = "PendingStake" THEN "Pending" ELSE "Active"
KindValue(kind, stake) ==
    IF kind = "EstimatedReward" THEN stake.estimated_reward ELSE stake.principal

MatchingStakes(kind) ==
    LET Matches(e) == e[2].status = KindStatus(kind) IN
    SelectSeq(AllStakes(fullnode[2]), Matches)

\* C18: whenever get_stakes answers, get_sub_account_balances returns exactly
\* one Amount: zero when no stake matches the kind's status, otherwise one
\* amount that aggregates one sub-balance per matching stake; Stake takes
\* Active stakes at principal, PendingStake Pending stakes at principal and
\* EstimatedReward Active stakes at estimated_reward.
C18_one_amount_per_kind ==
    [][\A kind \in SubAccountTypes :
          (get_sub_account_balances(kind) /\ fullnode[1] = "Ok") =>
             LET result == returned'[1]
                 matching == MatchingStakes(kind)
             IN /\ result[1] = "Ok"
                /\ Len(result[2]) = 1
                /\ IF matching = <<>>
                   THEN result[2][1] = [value |-> 0, metadata |-> <<>>]
                   ELSE /\ result[2][1].metadata =
                              <<[i \in 1..Len(matching) |->
                                    SubBalance(matching[i][2].staked_sui_id, matching[i][1],
                                               KindValue(kind, matching[i][2]))]>>
                        /\ result[2][1].value =
                              SumValues(result[2][1].metadata[1])
      ]_vars

\* the handler has aggregated the stakes of two validators and left out a
\* stake whose status the kind does not select
C18_witness ==
    /\ last_op = "get_sub_account_balances"
    /\ returned[1][1] = "Ok"
    /\ returned[1][2][1].metadata # <<>>
    /\ LET sub_balances == returned[1][2][1].metadata[1] IN
       /\ Len(sub_balances) >= 2
       /\ sub_balances[1].validator # sub_balances[Len(sub_balances)].validator
       /\ Len(sub_balances) < Len(AllStakes(fullnode[2]))
       /\ returned[1][2][1].value > 2 * MaxPrincipal

----------------------------------------------------------------------------
(* Specifications SpecWalk and SpecWalkFair: the ownership walk over chains,
   shared parents and cycles of object-owned objects *)

\* the backing store: the sender's object 0xA, the shared object 0x5, the gas
\* coin 0xC and three objects 0xB, 0xD and 0xF with the owners ob, od and of;
\* 0xE is not stored
WalkStore(ob, od, of) ==
    {Owned("0xA", 1, 0), Owned("0xC", 1, 0),
     Object("0x5", 1, Shared, "Move", 0, 0, PREV_TX),
     Object("0xB", 1, ob, "Move", 0, 0, PREV_TX),
     Object("0xD", 1, od, "Move", 0, 0, PREV_TX),
     Object("0xF", 1, of, "Move", 0, 0, PREV_TX)}

\* the owner of a stored child: the sender's input, the shared input, a child
\* (itself included), the id that is not stored, or an address that is not the
\* sender
WalkOwners ==
    {ObjectOwner(p) : p \in {"0xA", "0x5", "0xB", "0xD", "0xF", "0xE"}}
        \cup {AddressOwner(OTHER_ADDRESS)}

InitWalk ==
    /\ fullnode = NoStakes
    /\ threads = NoThreads
    /\ \E ob \in WalkOwners, od \in WalkOwners, of \in WalkOwners :
           LET objects == InputsOf(WalkStore(ob, od, of), {"0xA", "0x5", "0xC"}) IN
           new(WalkStore(ob, od, of), objects, MutableOf(objects), TX, FALSE, FALSE,
               NewGasCharger(1, {"0xC"}))

\* the VM wraps one of the stored children, the sender's input or the gas coin
WalkResultArgs ==
    {Batch(EmptyMap, {}, {}, [i \in {o.id} |-> RefOf(o)], <<>>)
       : o \in {x \in store : x.id \in {"0xB", "0xD", "0xF", "0xA", "0xC"}}}

NextWalk ==
    \/ /\ check.pc = "idle"
       /\ \E results \in WalkResultArgs : record_execution_results(results)
    \/ get_objects_to_authenticate(SENDER, FALSE)
    \/ authenticate_step

SpecWalk == InitWalk /\ [][NextWalk]_vars

\* the caller runs check_ownership_invariants to its return: the loop is not
\* suspended between two iterations
SpecWalkFair == InitWalk /\ [][NextWalk]_vars /\ WF_vars(authenticate_step)

----------------------------------------------------------------------------
(* Claim C19 *)

\* C19: check_ownership_invariants terminates for every backing store and
\* every set of modified ids, ownership cycles and chains of any length
\* included: a walk that has started reaches its return (Ok) or its panic.
C19_check_ownership_invariants_terminates ==
    (check.pc = "walk") ~> (check.pc \in {"Ok", "Panic"})

\* the walk returned Ok after it went round a cycle of three objects that own
\* one another
C19_witness ==
    /\ check.pc = "Ok"
    /\ objects_to_authenticate = <<>>
    /\ \E id \in DOMAIN covered :
          /\ covered[id] \in DOMAIN covered \ {id}
          /\ covered[covered[id]] \in DOMAIN covered \ {id, covered[id]}
          /\ covered[covered[covered[id]]] = id

----------------------------------------------------------------------------
(* Claim C20 *)

\* C20: during one run of check_ownership_invariants each object id is placed
\* on the worklist at most once, counting the initial entries of
\* get_objects_to_authenticate and the parents the loop pushes, also when a
\* modified child and its modified parent are both initial entries.
C20_each_id_enqueued_at_most_once ==
    \A id \in DOMAIN check.pushes : check.pushes[id] <= 1

----------------------------------------------------------------------------
(* Claim C21 *)

\* an input that is not a gas coin and is owned by the sender or shared
SenderOwnedOrSharedInput(id) ==
    /\ id \in DOMAIN input_objects
    /\ id \notin gas_charger.gas_coins
    /\ input_objects[id].owner \in {AddressOwner(SENDER), Shared}

RECURSIVE ChainEndsAtInput(_, _)
\* id is stored and object-owned, and following the ObjectOwner parents of the
\* backing store from id reaches a sender-owned or shared input within n + 1 links
ChainEndsAtInput(id, n) ==
    /\ store_get_object(id) # <<>>
    /\ store_get_object(id)[1].owner[1] = "ObjectOwner"
    /\ LET parent == store_get_object(id)[1].owner[2] IN
       \/ SenderOwnedOrSharedInput(parent)
       \/ n > 0 /\ ChainEndsAtInput(parent, n - 1)

\* every modified id is an authenticated input, a gas coin, or the start of a
\* chain that ends at a sender-owned or shared input
AllModifiedOwned ==
    \A id \in DOMAIN execution_results.objects_modified_at :
        \/ SenderOwnedOrSharedInput(id)
        \/ id \in gas_charger.gas_coins
        \/ ChainEndsAtInput(id, Cardinality(ObjectIDs))

\* C21: if every id of objects_modified_at is an authenticated input
\* (sender-owned or shared), a gas coin, or an object whose chain of pre-image
\* ObjectOwner parents ends at a sender-owned or shared input, then
\* check_ownership_invariants does not panic: at every point of the walk it is
\* still running or has returned Ok (that it returns is C19).
C21_owned_chains_pass ==
    (check.pc # "idle" /\ AllModifiedOwned) => check.pc \in {"walk", "Ok"}

\* Ok was returned where 0xF, 0xD and 0xB were all modified and form a chain of
\* three links below an input, so that parents were pushed while they waited
\* on the worklist; the gas coin and the sender's input were modified too
C21_witness ==
    /\ check.pc = "Ok"
    /\ AllModifiedOwned
    /\ {"0xA", "0xC"} \subseteq DOMAIN execution_results.objects_modified_at
    /\ \E id \in DOMAIN execution_results.objects_modified_at :
          /\ ~ChainEndsAtInput(id, 1)
          /\ ChainEndsAtInput(id, 2)
          /\ store_get_object(id)[1].owner[2]
                \in DOMAIN execution_results.objects_modified_at
          /\ check.pushes[store_get_object(id)[1].owner[2]] > 1

----------------------------------------------------------------------------
(* Claim C22 *)

\* a modified id that the backing store holds as an Immutable object and that
\* is not allowed by the exception for system packages at an epoch change
IllegalImmutableWrite(id) ==
    /\ id \in DOMAIN execution_results.objects_modified_at
    /\ store_get_object(id) # <<>>
    /\ store_get_object(id)[1].owner = Immutable
    /\ ~(check.is_epoch_change /\ is_system_package(id))

\* C22: a modified id whose pre-image owner in the backing store is Immutable
\* (a package written by upgrade_system_package included) passes
\* check_ownership_invariants only when is_epoch_change is true and the id is
\* a system package; in every other case the check panics instead of
\* returning Ok.
C22_immutable_write_needs_epoch_change ==
    (check.pc # "idle" /\ \E id \in ObjectIDs : IllegalImmutableWrite(id))
        => check.pc = "Panic"

\* the check returned Ok at an epoch change after upgrade_system_package wrote
\* the system package over its Immutable pre-image, next to a modified child
C22_witness ==
    /\ check.pc = "Ok"
    /\ check.is_epoch_change
    /\ SYSTEM_PACKAGE_ID \in DOMAIN execution_results.written_objects
    /\ SYSTEM_PACKAGE_ID \in DOMAIN execution_results.objects_modified_at
    /\ store_get_object(SYSTEM_PACKAGE_ID)[1].owner = Immutable
    /\ "0xB" \in DOMAIN execution_results.objects_modified_at

----------------------------------------------------------------------------
(* Claim C23 *)

\* an Immutable input object or a gas coin
ImmutableInputOrGas(id) ==
    \/ id \in gas_charger.gas_coins
    \/ id \in DOMAIN input_objects /\ input_objects[id].owner = Immutable

RECURSIVE ChainEndsAtImmutableOrGas(_, _)
\* id is stored and object-owned, and following the ObjectOwner parents of the
\* backing store from id reaches an Immutable input or a gas coin within n + 1
\* links
ChainEndsAtImmutableOrGas(id, n) ==
    /\ store_get_object(id) # <<>>
    /\ store_get_object(id)[1].owner[1] = "ObjectOwner"
    /\ LET parent == store_get_object(id)[1].owner[2] IN
       \/ ImmutableInputOrGas(parent)
       \/ n > 0 /\ ChainEndsAtImmutableOrGas(parent, n - 1)

\* C23: a modified object whose chain of ObjectOwner parents ends at an
\* Immutable input object or at a gas coin never passes
\* check_ownership_invariants: these are not in the authenticated set, and
\* the walk that pops one of them panics (unauthenticated root), so the check
\* never returns Ok and never runs out of worklist.
C23_immutable_and_gas_are_not_roots ==
    /\ \A id \in ObjectIDs : ImmutableInputOrGas(id) => id \notin authenticated_objects
    /\ (\E id \in DOMAIN execution_results.objects_modified_at :
            ChainEndsAtImmutableOrGas(id, Cardinality(ObjectIDs)))
         => /\ check.pc # "Ok"
            /\ check.pc = "walk" => objects_to_authenticate # <<>>

\* the walk panicked after it pushed an Immutable input or a gas coin as a
\* parent and popped it, where a modified child hangs two links below such an
\* input
C23_witness ==
    /\ check.pc = "Panic"
    /\ covered # EmptyMap
    /\ \E id \in DOMAIN execution_results.objects_modified_at :
          /\ ChainEndsAtImmutableOrGas(id, 1)
          /\ ~ChainEndsAtImmutableOrGas(id, 0)
    /\ \E id \in DOMAIN covered :
          /\ store_get_object(covered[id]) # <<>>
          /\ store_get_object(covered[id])[1].owner[1] # "ObjectOwner"
          /\ ImmutableInputOrGas(covered[id])

----------------------------------------------------------------------------
(* Claim C24 *)

\* the calls of track_storage_mutation that were made for id
TrackedFor(id) == {t \in gas_charger.tracked : t.id = id}

\* the pre-image rebate of a modified id
PreImageRebate(id) ==
    get_input_storage_rebate(id, execution_results.objects_modified_at[id][1])[1]

\* C24: one call of collect_storage_and_rebate calls track_storage_mutation
\* exactly once for each id of written_objects and objects_modified_at: with
\* (new_size, old_rebate) for a written id, whose storage_rebate becomes the
\* value returned (old_rebate 0 for a written id that is not modified), and
\* with (0, old_rebate) for a modified id that is not written; every
\* old_rebate is the pre-image value, whatever rebates the call assigned.
C24_one_tracked_mutation_per_id ==
    pc = "charged" =>
        LET written == execution_results.written_objects
            modified == DOMAIN execution_results.objects_modified_at
        IN
        /\ {t.id : t \in gas_charger.tracked} = (DOMAIN written) \cup modified
        /\ \A id \in (DOMAIN written) \cup modified : Cardinality(TrackedFor(id)) = 1
        /\ \A t \in gas_charger.tracked :
              /\ t.old_rebate = IF t.id \in modified THEN PreImageRebate(t.id) ELSE 0
              /\ IF t.id \in DOMAIN written
                 THEN /\ t.new_size = object_size_for_gas_metering(written[t.id])
                      /\ written[t.id].storage_rebate = t.new_rebate
                 ELSE t.new_size = 0

\* one call charged a created object, a rewritten input whose new rebate
\* differs from its pre-image rebate, and a deleted or wrapped child
C24_witness ==
    /\ pc = "charged"
    /\ \E t \in gas_charger.tracked :
          /\ t.id \in DOMAIN execution_results.written_objects
          /\ t.id \notin DOMAIN execution_results.objects_modified_at
    /\ \E t \in gas_charger.tracked :
          /\ t.id \in DOMAIN execution_results.written_objects
          /\ t.id \in DOMAIN execution_results.objects_modified_at
          /\ t.old_rebate # t.new_rebate
    /\ \E t \in gas_charger.tracked :
          /\ t.id \notin DOMAIN execution_results.written_objects
          /\ t.old_rebate > 0

----------------------------------------------------------------------------
(* Claim C27 *)

\* the gas summaries that charge storage an amount other than the output rebate
MischargedSummaries(or) ==
    {g \in GasSummaries : g.storage_cost # 0 /\ g.storage_cost # or}

\* C27 (as claimed): whenever storage_cost # 0 and storage_cost # OR,
\* check_sui_conserved(true, ..) returns the error "<storage_cost> SUI charged
\* for storage, <OR> SUI in storage rebate field of output objects", whatever
\* the summary's storage_rebate and non_refundable_storage_fee are.
C27_storage_cost_error ==
    ~get_modified_objects_panics =>
        \A g \in MischargedSummaries(OR) :
            check_sui_conserved(TRUE, g) = "Err: storage cost"

\* C27 (amended): whenever storage_cost # 0 and storage_cost # OR,
\* check_sui_conserved(true, ..) returns an error: the storage-cost error when
\* IR = storage_rebate + non_refundable_storage_fee, and otherwise the error
\* "<IR> SUI in storage rebate field of input objects, ..", which is tested
\* first.
C27_storage_cost_error_after_input_rebate ==
    ~get_modified_objects_panics =>
        LET ir == IR IN
        \A g \in MischargedSummaries(OR) :
            check_sui_conserved(TRUE, g) =
                IF ir = g.storage_rebate + g.non_refundable_storage_fee
                THEN "Err: storage cost"
                ELSE "Err: input rebate"

\* input rebate exceeds output rebate, and of two summaries that charge more
\* storage than the output rebate one is rejected for its storage cost and
\* the other for its input rebate
C27_witness ==
    /\ ~get_modified_objects_panics
    /\ IR > OR
    /\ OR > 0
    /\ \E g \in MischargedSummaries(OR) :
          /\ g.storage_cost > OR
          /\ check_sui_conserved(TRUE, g) = "Err: storage cost"
    /\ \E g \in MischargedSummaries(OR) :
          /\ g.storage_cost > OR
          /\ check_sui_conserved(TRUE, g) = "Err: input rebate"

----------------------------------------------------------------------------
(* Specification SpecRebate: where the pre-image rebate of a modified id
   comes from *)

\* the backing store: the sender's object 0xA, its child 0xB and the system
\* package 0x2, each holding storage rebate; 0xF is not stored
RebateStore ==
    {Object("0xA", 1, AddressOwner(SENDER), "Move", 1, 0, PREV_TX),
     Object("0xB", 1, ObjectOwner("0xA"), "Move", MaxRebate, 0, PREV_TX),
     Object("0x2", 1, Immutable, "Package", 1, 0, PREV_TX)}

InitRebate ==
    /\ fullnode = NoStakes
    /\ threads = NoThreads
    /\ \E debug \in BOOLEAN :
           LET objects == InputsOf(RebateStore, {"0xA"}) IN
           new(RebateStore, objects, MutableOf(objects), TX, FALSE, debug,
               NewGasCharger(1, {}))

\* the old objects handed to mutate_child_object: the child 0xB or the input
\* 0xA, with any storage rebate
RebateOldArgs ==
    {[o EXCEPT !.storage_rebate = r] :
        o \in {x \in store : x.id \in {"0xA", "0xB"}}, r \in 0..MaxRebate}

\* the VM wraps the child 0xB at its stored version or at a version that is
\* not stored, or wraps 0xF
RebateResultArgs ==
    {Batch(EmptyMap, {}, {}, [i \in {"0xB"} |-> RefOf(o)], <<>>)
       : o \in {x \in store : x.id = "0xB"}}
    \cup {Batch(EmptyMap, {}, {}, [i \in {id} |-> RefOf(Child(id, "0xA", MaxVersion, 0))], <<>>)
             : id \in {"0xB", "0xF"}}

\* the metadata of the loaded child 0xB: that of the stored object, or of
\* another version
RebateLoadedArgs ==
    {[id \in {o.id} |-> MetadataOf(o)] : o \in {x \in store : x.id = "0xB"}}
    \cup {[id \in {"0xB"} |-> MetadataOf(Child("0xB", "0xA", MaxVersion, 0))]}

\* the objects handed to mutate_input_object: the input 0xA at any version,
\* and the child 0xB, which is no input
RebateMutateArgs ==
    {Object("0xA", v, AddressOwner(SENDER), "Move", 0, 0, PREV_TX) : v \in 1..MaxVersion}
    \cup {Child("0xB", "0xA", 1, 0)}

NextRebate ==
    \/ \E old \in RebateOldArgs : mutate_child_object(old, [old EXCEPT !.balance = 1])
    \/ \E object \in RebateMutateArgs : mutate_input_object(object)
    \/ delete_input_object("0xA")
    \/ ensure_active_inputs_mutated
    \/ upgrade_system_package(Object("0x2", 2, Immutable, "Package", 1, 0, PREV_TX))
    \/ \E results \in RebateResultArgs : record_execution_results(results)
    \/ \E loaded \in RebateLoadedArgs : save_loaded_child_objects(loaded)
    \/ collect_storage_and_rebate

SpecRebate == InitRebate /\ [][NextRebate]_vars

----------------------------------------------------------------------------
(* Claim C25 *)

\* the stored objects with this id at exactly the version recorded for it
StoredAtRecordedVersion(id) ==
    {o \in store : o.id = id /\ o.version = execution_results.objects_modified_at[id][1]}

\* the rebate of the first source that holds the modified id: the input map,
\* the loaded-children metadata, the backing store at the recorded version;
\* <<>> when none does
FirstSourceRebate(id) ==
    IF id \in DOMAIN input_objects THEN <<input_objects[id].storage_rebate>>
    ELSE IF id \in DOMAIN loaded_child_objects
    THEN <<loaded_child_objects[id].storage_rebate>>
    ELSE IF StoredAtRecordedVersion(id) # {}
    THEN <<(CHOOSE o \in StoredAtRecordedVersion(id) : TRUE).storage_rebate>>
    ELSE <<>>

\* what a debug build refuses: loaded-child metadata of another version than
\* the recorded one, and a stored pre-image that is not a package
DebugRejects(id) ==
    /\ debug_assertions
    /\ id \notin DOMAIN input_objects
    /\ IF id \in DOMAIN loaded_child_objects
       THEN loaded_child_objects[id].version
               # execution_results.objects_modified_at[id][1]
       ELSE \E o \in StoredAtRecordedVersion(id) : ~is_package(o)

\* collect_storage_and_rebate passed the first source's rebate of every
\* modified id to track_storage_mutation
FirstSourceTracked ==
    /\ pc = "charged"
    /\ \A id \in DOMAIN execution_results.objects_modified_at :
          \E t \in gas_charger.tracked :
              t.id = id /\ <<t.old_rebate>> = FirstSourceRebate(id)

\* C25 (as claimed): the pre-image rebate of a modified id is taken from the
\* input map if the id is an input, else from the loaded_child_objects
\* metadata, else from the backing store at exactly the version recorded in
\* objects_modified_at; the operation panics if none of the three holds the
\* object (it does not treat the rebate as 0).
C25_rebate_from_first_source ==
    last_op = "collect_storage_and_rebate" =>
        IF \E id \in DOMAIN execution_results.objects_modified_at :
               FirstSourceRebate(id) = <<>>
        THEN pc = "panicked"
        ELSE FirstSourceTracked

\* C25 (amended): as claimed, except that a debug build also panics when the
\* loaded_child_objects metadata is of another version than the recorded one
\* and when the object found in the backing store is not a package.
C25_rebate_from_first_source_or_debug_panic ==
    last_op = "collect_storage_and_rebate" =>
        IF \E id \in DOMAIN execution_results.objects_modified_at :
               FirstSourceRebate(id) = <<>> \/ DebugRejects(id)
        THEN pc = "panicked"
        ELSE FirstSourceTracked

\* one call took a rebate from each of the three sources: the input 0xA, the
\* loaded child 0xB and the stored system package
C25_witness ==
    /\ last_op = "collect_storage_and_rebate"
    /\ pc = "charged"
    /\ {"0xA", "0xB", "0x2"} \subseteq DOMAIN execution_results.objects_modified_at
    /\ "0xB" \in DOMAIN loaded_child_objects
    /\ \A id \in {"0xA", "0xB", "0x2"} : FirstSourceRebate(id)[1] > 0

----------------------------------------------------------------------------
(* Claim C26 *)

\* what mutate_child_object(old, new) leaves in the three maps under new's id
ChildMutationRecorded(old_object, new_object) ==
    /\ new_object.id \in DOMAIN execution_results.objects_modified_at
    /\ new_object.id \in DOMAIN execution_results.written_objects
    /\ new_object.id \in DOMAIN loaded_child_objects
    /\ execution_results.objects_modified_at[new_object.id]
          = <<old_object.version, digest(old_object)>>
    /\ execution_results.written_objects[new_object.id] = new_object
    /\ loaded_child_objects[new_object.id] = MetadataOf(old_object)

\* the rebate accounting takes rebate as the pre-image rebate of id: both the
\* staging loop of collect_storage_and_rebate and the ModifiedObjectInfo that
\* check_sui_conserved sums
AccountingUses(id, rebate) ==
    /\ OldStorageRebate(execution_results, id) = <<rebate>>
    /\ \E m \in get_modified_objects :
          m.id = id /\ m.input # <<>> /\ m.input[2] = <<rebate>>

\* C26 (as claimed): after mutate_child_object(old, new), objects_modified_at[id]
\* = (old.version, old.digest), written_objects[id] = new,
\* loaded_child_objects[id] holds old's (version, digest, storage_rebate), and
\* the storage-rebate accounting that follows uses old.storage_rebate as the
\* pre-image rebate of that id, for every id including ids that are also
\* input objects.
C26_child_rebate_is_old_rebate ==
    [][\A old \in RebateOldArgs :
          (mutate_child_object(old, [old EXCEPT !.balance = 1]) /\ pc' = "exec")
             => /\ ChildMutationRecorded(old, [old EXCEPT !.balance = 1])'
                /\ AccountingUses(old.id, old.storage_rebate)'
      ]_vars

\* C26 (amended): as claimed for the three maps; the accounting that follows
\* uses old.storage_rebate as the pre-image rebate of an id that is not an
\* input object, and the input's own storage_rebate for an id that is.
C26_child_rebate_unless_input ==
    [][\A old \in RebateOldArgs :
          (mutate_child_object(old, [old EXCEPT !.balance = 1]) /\ pc' = "exec")
             => /\ ChildMutationRecorded(old, [old EXCEPT !.balance = 1])'
                /\ AccountingUses(old.id,
                                  IF old.id \in DOMAIN input_objects
                                  THEN input_objects[old.id].storage_rebate
                                  ELSE old.storage_rebate)'
      ]_vars

\* mutate_child_object has replaced the metadata of the loaded child 0xB by
\* that of an old object with another rebate, and has been called for the
\* input 0xA with an old object whose rebate is not the input's
C26_witness ==
    /\ last_op = "mutate_child_object"
    /\ pc = "exec"
    /\ {"0xA", "0xB"} \subseteq DOMAIN loaded_child_objects
    /\ loaded_child_objects["0xB"].storage_rebate
          # (CHOOSE o \in store : o.id = "0xB").storage_rebate
    /\ loaded_child_objects["0xA"].storage_rebate # input_objects["0xA"].storage_rebate
    /\ AccountingUses("0xB", loaded_child_objects["0xB"].storage_rebate)

----------------------------------------------------------------------------
(* Claim C30 *)

\* id is a deleted mutable input that is not written and whose pre-image is
\* the input's reference
DeletedUnwritten(id) ==
    /\ id \in DOMAIN mutable_input_refs
    /\ id \in execution_results.deleted_object_ids
    /\ id \notin DOMAIN execution_results.written_objects
    /\ id \in DOMAIN execution_results.objects_modified_at
    /\ execution_results.objects_modified_at[id] = RefOf(input_objects[id])

\* C30: after delete_input_object(id) on a mutable input that has not been
\* written, id is in deleted_object_ids, objects_modified_at[id] is the
\* input's (version, digest) and id is not a key of written_objects;
\* ensure_active_inputs_mutated does not write it back; and the collect_rebate
\* that follows calls track_storage_mutation(0, r), r the input's
\* storage_rebate.
C30_deleted_input_is_rebated ==
    [][/\ (/\ delete_input_object("0xA")
            /\ pc' = "exec"
            /\ "0xA" \notin DOMAIN execution_results.written_objects)
           => DeletedUnwritten("0xA")'
       /\ (ensure_active_inputs_mutated /\ DeletedUnwritten("0xA"))
           => DeletedUnwritten("0xA")'
       /\ (collect_storage_and_rebate /\ pc' = "charged" /\ DeletedUnwritten("0xA"))
           => /\ DeletedUnwritten("0xA")'
              /\ \A t \in gas_charger'.tracked :
                    t.id = "0xA" =>
                       /\ t.new_size = 0
                       /\ t.old_rebate = input_objects["0xA"].storage_rebate
              /\ \E t \in gas_charger'.tracked : t.id = "0xA"
      ]_vars

\* the input 0xA was deleted, ensure_active_inputs_mutated ran, and the rebate
\* collection credited back the input's rebate
C30_witness ==
    /\ pc = "charged"
    /\ DeletedUnwritten("0xA")
    /\ input_objects["0xA"].storage_rebate > 0
    /\ \E t \in gas_charger.tracked :
          /\ t.id = "0xA"
          /\ t.new_size = 0
          /\ t.old_rebate = input_objects["0xA"].storage_rebate

----------------------------------------------------------------------------
(* Claim C29 *)

\* map after is map before with the entry of key set to value, and nothing else
OnlyEntrySet(before, after, key, value) ==
    /\ DOMAIN after = (DOMAIN before) \cup {key}
    /\ after[key] = value
    /\ \A k \in (DOMAIN before) \ {key} : after[k] = before[k]

\* C29: mutate_input_object(obj) succeeds only when obj.id is a key of
\* mutable_input_refs, and otherwise fails without changing the store; on
\* success objects_modified_at[id] is mutable_input_refs[id], the input's
\* version and digest whatever object was passed and however often the id was
\* mutated before, written_objects[id] is obj, and every other entry of the
\* accumulator is unchanged.
C29_mutate_input_object_frame ==
    [][\A object \in RebateMutateArgs :
          mutate_input_object(object) =>
             IF object.id \notin DOMAIN mutable_input_refs
             THEN /\ pc' = "panicked"
                  /\ UNCHANGED <<store_vars, execution_results, loaded_child_objects,
                                 runtime_packages_loaded_from_db>>
             ELSE /\ pc' = "exec"
                  /\ mutable_input_refs[object.id] = RefOf(input_objects[object.id])
                  /\ OnlyEntrySet(execution_results.objects_modified_at,
                                  execution_results'.objects_modified_at,
                                  object.id, mutable_input_refs[object.id])
                  /\ OnlyEntrySet(execution_results.written_objects,
                                  execution_results'.written_objects, object.id, object)
                  /\ execution_results'.created_object_ids
                        = execution_results.created_object_ids
                  /\ execution_results'.deleted_object_ids
                        = execution_results.deleted_object_ids
                  /\ execution_results'.user_events = execution_results.user_events
                  /\ UNCHANGED <<store_vars, loaded_child_objects,
                                 runtime_packages_loaded_from_db>>
      ]_vars

\* the input 0xA was mutated with an object of another version than the
\* input's, next to other entries of the accumulator
C29_witness ==
    /\ last_op = "mutate_input_object"
    /\ pc = "exec"
    /\ "0xA" \in DOMAIN execution_results.written_objects
    /\ execution_results.written_objects["0xA"].version # input_objects["0xA"].version
    /\ execution_results.objects_modified_at["0xA"] = RefOf(input_objects["0xA"])
    /\ DOMAIN execution_results.written_objects # {"0xA"}
    /\ DOMAIN execution_results.objects_modified_at # {"0xA"}

----------------------------------------------------------------------------
(* Specification SpecThreads: concurrent get_package_object calls *)

\* the backing store: the sender's object 0xA, its child 0xB, the system
\* package 0x2 and the package 0xD; 0xF is not stored
ThreadStore == MainStore(1) \cup {Package("0xD", 1)}

InitThreads ==
    /\ fullnode = NoStakes
    /\ threads = NoThreads
    /\ LET objects == InputsOf(ThreadStore, {"0xA"}) IN
       new(ThreadStore, objects, MutableOf(objects), TX, FALSE, FALSE, NewGasCharger(1, {}))

\* the ids the threads resolve: two stored packages, an object that is no
\* package, and an id that is not stored
ThreadPackageIds == {"0x2", "0xD", "0xA", "0xF"}

\* the store is written by &mut self before it is shared, and only read while
\* the threads run
NextThreads ==
    \/ /\ threads = NoThreads
       /\ upgrade_system_package(Package("0x2", 2))
    \/ \E t \in Threads, package_id \in ThreadPackageIds : thread_call(t, package_id)
    \/ \E t \in Threads : thread_lookup(t)
    \/ \E t \in Threads : thread_write(t)
    \/ \E t \in Threads : thread_insert(t)
    \/ \E t \in Threads : thread_return(t)

SpecThreads == InitThreads /\ [][NextThreads]_vars

----------------------------------------------------------------------------
(* Claim C28 *)

\* the call of thread t falls through to the backing store
FallsThrough(t) ==
    /\ threads.calls[t].pc # "idle"
    /\ threads.calls[t].package_id \notin DOMAIN execution_results.written_objects

\* the package ids that calls which have returned found in the backing store
PackagesHit ==
    {threads.calls[t].package_id :
        t \in {u \in Threads :
                  /\ FallsThrough(u)
                  /\ threads.calls[u].pc = "returned"
                  /\ store_get_package_object(threads.calls[u].package_id) # <<>>}}

\* C28: when several threads call get_package_object concurrently on one store
\* (same or different ids, falling through to the backing store), every call
\* returns the backing store's package; once all calls have completed,
\* runtime_packages_loaded_from_db holds exactly one entry for each package id
\* that was hit, the package of the backing store (no insertion is lost); and
\* no interleaving deadlocks on the lock: while a call is in progress some
\* thread can take a step, and at most one thread holds the write guard.
C28_concurrent_package_loads ==
    /\ \A t \in Threads :
          (FallsThrough(t) /\ threads.calls[t].pc = "returned")
             => threads.calls[t].result
                   = <<Ok(store_get_package_object(threads.calls[t].package_id))>>
    /\ (\A t \in Threads : threads.calls[t].pc \in {"idle", "returned"})
          => /\ DOMAIN runtime_packages_loaded_from_db = PackagesHit
             /\ \A id \in PackagesHit :
                   <<runtime_packages_loaded_from_db[id]>> = store_get_package_object(id)
             /\ threads.lock = <<>>
    /\ (\E t \in Threads : threads.calls[t].pc \notin {"idle", "returned"})
          => ENABLED (\E t \in Threads : thread_step(t))
    /\ \A t \in Threads :
          threads.calls[t].pc \in {"insert", "drop"} <=> threads.lock = <<t>>

\* two threads have loaded two different packages from the backing store, and
\* both are recorded
C28_witness ==
    /\ \A t \in Threads : threads.calls[t].pc = "returned" /\ FallsThrough(t)
    /\ \E t \in Threads, u \in Threads :
          threads.calls[t].package_id # threads.calls[u].package_id
    /\ Cardinality(PackagesHit) = 2
    /\ DOMAIN runtime_packages_loaded_from_db = PackagesHit

----------------------------------------------------------------------------
(* Specification SpecEffects: a system transaction from execution to effects *)

\* the backing store: the system-state object 0x5 holding storage rebate r5,
\* the sender's coin 0xA, its child 0xB and the system package 0x2
EffectsStore(r5) ==
    {Object("0x5", 1, Shared, "Move", r5, 0, PREV_TX),
     Owned("0xA", 1, 0), Child("0xB", "0xA", 1, 0), Package("0x2", 1)}

\* the transaction takes 0xA, or 0xA and 0x5, as inputs; 0x5 is a mutable
\* input or a read-only one; 0xA pays the gas, or the transaction is gas-less
InitEffects ==
    /\ fullnode = NoStakes
    /\ threads = NoThreads
    /\ \E r5 \in 0..MaxRebate, ids \in {{"0xA"}, {"0xA", "0x5"}},
          coins \in {{}, {"0xA"}}, debug \in BOOLEAN :
         \E mutable \in {ids, {"0xA"}} :
           new(EffectsStore(r5), InputsOf(EffectsStore(r5), ids), mutable, TX, FALSE,
               debug, NewGasCharger(1, coins))

\* the engine mutates an input: the object it read, with another balance
EffectsMutateArgs ==
    {[read_object(id)[1] EXCEPT !.balance = 1] : id \in DOMAIN input_objects}

\* the engine mutates the child 0xB: the old object is the one it read through
\* the store, the new one differs in its balance
EffectsChildArgs ==
    LET old == read_child_object_result("0xA", "0xB", SequenceNumber_MAX) IN
    IF old = <<>> THEN {}
    ELSE {<<old[1], [old[1] EXCEPT !.balance = b]>> :
             b \in (0..MaxBalance) \ {old[1].balance}}

\* a VM run mutates, deletes or wraps the stored coin 0xA or its child 0xB
EffectsResultArgs ==
    UNION {
        {Batch([i \in {o.id} |-> [o EXCEPT !.balance = 1]], {}, {},
               [i \in {o.id} |-> RefOf(o)], <<>>),
         Batch(EmptyMap, {}, {o.id}, [i \in {o.id} |-> RefOf(o)], <<>>),
         Batch(EmptyMap, {}, {}, [i \in {o.id} |-> RefOf(o)], <<>>)}
        : o \in {x \in store : x.id \in {"0xA", "0xB"}}}

NextEffects ==
    \/ \E object \in EffectsMutateArgs : mutate_input_object(object)
    \/ \E args \in EffectsChildArgs : mutate_child_object(args[1], args[2])
    \/ upgrade_system_package(Package("0x2", 2))
    \/ \E id \in {"0xA", "0x5"} : delete_input_object(id)
    \/ \E results \in EffectsResultArgs : record_execution_results(results)
    \/ ensure_active_inputs_mutated
    \/ \E amount \in 0..MaxRebate : conserve_unmetered_storage_rebate(amount)
    \/ estimate_effects_size_upperbound
    \/ \E id \in {"0xA", "0x5"} : Storage_read_object(id)
    \/ read_child_object("0xA", "0xB", SequenceNumber_MAX)
    \/ into_effects

SpecEffects == InitEffects /\ [][NextEffects]_vars

----------------------------------------------------------------------------
(* Claim C31 *)

\* the wrapped ids: modified, neither written nor deleted
WrappedIds ==
    {id \in DOMAIN execution_results.objects_modified_at :
        /\ id \notin DOMAIN execution_results.written_objects
        /\ id \notin execution_results.deleted_object_ids}

\* C31: the delete count estimate_effects_size_upperbound passes on is the
\* number of deleted ids plus the number of wrapped ids (modified, neither
\* written nor deleted), which is the number of distinct ids that are deleted
\* or modified without being written: a wrapped id counts once, a deleted id
\* never twice; the other three arguments are the numbers of written objects,
\* of mutable inputs and of all inputs.
C31_delete_count ==
    last_op = "estimate_effects_size_upperbound" =>
        /\ returned[1][3]
              = Cardinality(execution_results.deleted_object_ids) + Cardinality(WrappedIds)
        /\ returned[1][3]
              = Cardinality(execution_results.deleted_object_ids
                            \cup {id \in DOMAIN execution_results.objects_modified_at :
                                     id \notin DOMAIN execution_results.written_objects})
        /\ returned[1][1] = Cardinality(DOMAIN execution_results.written_objects)
        /\ returned[1][2] = Cardinality(DOMAIN mutable_input_refs)
        /\ returned[1][4] = Cardinality(DOMAIN input_objects)

\* the estimate was taken with 0xA deleted (and so modified as well), 0xB
\* wrapped and another object written
C31_witness ==
    /\ last_op = "estimate_effects_size_upperbound"
    /\ "0xA" \in execution_results.deleted_object_ids
    /\ "0xA" \in DOMAIN execution_results.objects_modified_at
    /\ "0xB" \in WrappedIds
    /\ DOMAIN execution_results.written_objects # {}
    /\ returned[1][3] = 2

----------------------------------------------------------------------------
(* Claim C32 *)

\* the currently readable image of the system-state object: its written
\* post-image if there is one, else its input, else none
SystemStateImage == WrittenElseInput(SUI_SYSTEM_STATE_OBJECT_ID)

\* C32: conserve_unmetered_storage_rebate(0) leaves the store unchanged; a
\* call with a nonzero amount succeeds only when the readable image of the
\* system-state object exists, has storage_rebate 0 and is a mutable input,
\* and then writes that image with only storage_rebate set to the amount,
\* leaving every other written object alone; when the readable image has a
\* nonzero storage_rebate the call panics in debug and release builds alike
\* and overwrites nothing.
C32_conserve_unmetered_storage_rebate ==
    [][\A amount \in 0..MaxRebate :
          conserve_unmetered_storage_rebate(amount) =>
             IF amount = 0
             THEN UNCHANGED <<store_vars, pc, execution_results, loaded_child_objects,
                              runtime_packages_loaded_from_db, gas_charger>>
             ELSE /\ pc' = "exec" =>
                        /\ SystemStateImage # <<>>
                        /\ SystemStateImage[1].storage_rebate = 0
                        /\ SUI_SYSTEM_STATE_OBJECT_ID \in DOMAIN mutable_input_refs
                        /\ OnlyEntrySet(execution_results.written_objects,
                                        execution_results'.written_objects,
                                        SUI_SYSTEM_STATE_OBJECT_ID,
                                        [SystemStateImage[1] EXCEPT !.storage_rebate = amount])
                        /\ execution_results'.deleted_object_ids
                              = execution_results.deleted_object_ids
                        /\ execution_results'.created_object_ids
                              = execution_results.created_object_ids
                        /\ UNCHANGED <<store_vars, loaded_child_objects,
                                       runtime_packages_loaded_from_db, gas_charger>>
                  /\ (SystemStateImage # <<>> /\ SystemStateImage[1].storage_rebate # 0) =>
                        /\ pc' = "panicked"
                        /\ UNCHANGED <<store_vars, execution_results, loaded_child_objects,
                                       runtime_packages_loaded_from_db, gas_charger>>]_vars

\* a release build refused a nonzero call because an earlier nonzero call had
\* written the system-state object with its storage_rebate set
C32_witness ==
    /\ last_op = "conserve_unmetered_storage_rebate"
    /\ pc = "panicked"
    /\ ~debug_assertions
    /\ SUI_SYSTEM_STATE_OBJECT_ID \in DOMAIN input_objects
    /\ input_objects[SUI_SYSTEM_STATE_OBJECT_ID].storage_rebate = 0
    /\ SystemStateImage[1].storage_rebate = MaxRebate
    /\ execution_results.objects_modified_at[SUI_SYSTEM_STATE_OBJECT_ID]
          = RefOf(input_objects[SUI_SYSTEM_STATE_OBJECT_ID])

----------------------------------------------------------------------------
(* Claim C33 *)

\* C33 (as claimed): once objects_modified_at[id] is set, no operation among
\* mutate_input_object, delete_input_object, mutate_child_object,
\* upgrade_system_package, record_execution_results and
\* ensure_active_inputs_mutated removes or changes it: the first recorded
\* pre-image of an id stays.
C33_first_pre_image_stays ==
    [][\A id \in DOMAIN execution_results.objects_modified_at :
          /\ id \in DOMAIN execution_results'.objects_modified_at
          /\ execution_results'.objects_modified_at[id]
                = execution_results.objects_modified_at[id]]_vars

----------------------------------------------------------------------------
(* Claim C34 *)

\* C34 (as claimed): resolver reads reflect in-flight deletes: once the child
\* 0xB is in deleted_object_ids, read_child_object does not return an image
\* of it held by the backing store, and once an input id is in
\* deleted_object_ids, read_object does not return its input pre-image.
C34_reads_reflect_deletes ==
    [][/\ (/\ read_child_object("0xA", "0xB", SequenceNumber_MAX)
            /\ "0xB" \in execution_results.deleted_object_ids)
           => \A o \in store : returned' # <<Ok(<<o>>)>>
       /\ \A id \in DOMAIN input_objects :
             (/\ Storage_read_object(id)
              /\ id \in execution_results.deleted_object_ids)
             => ~(pc' = "exec" /\ returned' = <<<<input_objects[id]>>>>)]_vars

----------------------------------------------------------------------------
(* Claim C35 *)

\* C35 (as claimed): when the gas charger has a gas coin and the coin is a
\* mutable input, then after ensure_active_inputs_mutated, whatever store
\* operations came before, the coin is a key of written_objects, so that
\* into_effects can snapshot its post-image; for a gas-less transaction the
\* effects carry the zero-filled sentinel reference.
C35_gas_coin_is_written ==
    /\ (/\ last_op = "ensure_active_inputs_mutated"
        /\ gas_coin(gas_charger) # <<>>
        /\ gas_coin(gas_charger)[1] \in DOMAIN mutable_input_refs)
       => gas_coin(gas_charger)[1] \in DOMAIN execution_results.written_objects
    /\ (/\ last_op = "into_effects"
        /\ pc = "effects"
        /\ gas_coin(gas_charger) = <<>>)
       => updated_gas_object_info(execution_results, gas_charger)
            = <<<<"0x0", 0, <<"digest", "MIN">>>>, AddressOwner("0x0")>>

====
